---- MODULE Spec2Model ----
(***************************************************************************)
(* A model of five parts of foundry:                                       *)
(*   - the bounded unsigned-integer fuzz strategy and its value tree       *)
(*     (crates/evm/fuzz/src/strategies/uint.rs),                           *)
(*   - the prank cheatcodes (crates/cheatcodes/src/evm/prank.rs),          *)
(*   - the inspector stack with its inner EVM context                      *)
(*     (crates/evm/evm/src/inspectors/stack.rs, logs.rs),                  *)
(*   - the invariant fuzz executor (evm/src/invariant_fuzz.rs),            *)
(*   - the pauseTracing and resumeTracing cheatcodes                       *)
(*     (crates/cheatcodes/src/utils.rs).                                   *)
(* Each part has its own specification (SpecTree, SpecPrank, SpecStack,    *)
(* SpecInvariant, SpecTracing; SpecEvents drives the event hooks of the    *)
(* stack, SpecShrink drives a value tree the way a shrinking test runner   *)
(* does, SpecTreeLive is SpecTree with calls that never cease); the        *)
(* variables of the other parts stay at their initial value under it.      *)
(***************************************************************************)
EXTENDS Integers, Sequences, FiniteSets, TLC

VARIABLES
    \* ---- uint strategy / value tree
    strategy,       \* the UintStrategy
    tree,           \* Option<UintValueTree>: {} or {t}
    tree_pc,        \* "none" | "new" (UintValueTree::new) | "new_tree" | "panic"
    ret,            \* Option: what the last simplify()/complicate() returned
    trail,          \* the last two calls on the tree: <<[op, before], ...>>
    threshold,      \* shrinking: the test fails exactly for the values >= threshold
    last_failing,   \* shrinking: Option, the last current() the test failed for
    shrink_pc,      \* shrinking: "none" | "shrinking" | "done"
    \* ---- prank cheatcodes
    ccx,            \* the cheat call context: [caller, depth] of the test contract
    env_tx_caller,  \* ecx.env.tx.caller (tx.origin)
    cheats,         \* the Cheatcodes state: [prank, broadcast], each an Option
    in_call,        \* a call of the test contract is between its call and call_end hook
    observed,       \* [caller, origin] the callee of the last call saw, Option
    cheat_op,       \* the last cheatcode or hook: "none" | "prank" | "stopPrank" | ...
    cheat_result,   \* the Result of the last cheatcode: "none" | "ok" | an error
    cheats_before,  \* cheats before the last cheatcode or hook
    last_arm,       \* the Prank stored by the last prank/startPrank that succeeded
    calls_since_arm, \* calls begun since then (capped at MaxCalls)
    \* ---- invariant fuzz executor
    setup,          \* what invariant_fuzz is called with and what the contract answers
    inv_pc,         \* "idle" (between runs) | "run" | "done" | "panic" | "failed" | "aborted"
    runs,           \* runs of the TestRunner completed
    inputs,         \* the generated sequence of the current run
    pos,            \* index in inputs of the next call of the 'all loop
    db,             \* executor.db
    clean_db,       \* the clone taken before the first run
    invariant_doesnt_hold, \* invariant name -> Option<InvariantFuzzError>
    fuzz_cases,     \* Vec<FuzzCase>
    first_failure,  \* history: invariant name -> the record of its first failure
    executed,       \* history: the positions of inputs executed in the current run
    outcome,        \* history: Option, the last iteration of the 'all loop and how it went
    \* ---- inspector stack
    inspectors,     \* the fields of InspectorStack that are Some(..)
    in_inner_context, \* InspectorStack::in_inner_context
    log_collector,  \* LogCollector::logs
    data_db,        \* data.db, the backend
    journaled_state, \* data.journaled_state.state of the outer transaction
    frames,         \* the call stack of the outer EVM; its length is journaled_state.depth
    inner_state,    \* the journaled state of the inner transaction
    inner_frames,   \* the call stack of the inner EVM
    stack_pc,       \* "start" | "outer" | "inner_start" | "inner" | "inner_done" | "done" | "collected" | "panic"
    end_due,        \* Option: the call/create whose hook returned a result, end hook next
    intercepted,    \* Option: the call/create being run as the inner transaction
    inner_result,   \* Option: the ResultAndState of the inner transact()
    returned,       \* history: the last inner transaction and what the hook made of it
    hook,           \* history: the last hook of the stack, what it invoked and returned
    call_counts,    \* history: inspector -> invocations of its hook for the intercepted call
    log_events,     \* history: the log() callbacks and console calls, in order
    inner_txs,      \* inner transactions started
    ops,            \* the logs, stores, calls and creates of the running contracts so far
    collected,      \* Option<InspectorData>: what collect() returned
\* the tracing cheatcodes
    tracer,         \* Option<TracingInspector>: the nodes of its trace arena, each [idx, ordering]
    ignored_traces, \* Cheatcodes::ignored_traces: [last_pause_call, ignored]
    tracing_op      \* history: the last tracing cheatcode, its result and the state before it

ShrinkVars == <<threshold, last_failing, shrink_pc>>
TreeVars == <<strategy, tree, tree_pc, ret, trail, ShrinkVars>>
PrankVars == <<ccx, env_tx_caller, cheats, in_call, observed, cheat_op, cheat_result,
               cheats_before, last_arm, calls_since_arm>>
InvariantVars == <<setup, inv_pc, runs, inputs, pos, db, clean_db, invariant_doesnt_hold,
                   fuzz_cases, first_failure, executed, outcome>>
StackVars == <<inspectors, in_inner_context, log_collector, data_db, journaled_state, frames,
               inner_state, inner_frames, stack_pc, end_due, intercepted, inner_result,
               returned, hook, call_counts, log_events, inner_txs, ops, collected>>
TracingVars == <<tracer, ignored_traces, tracing_op>>
vars == <<TreeVars, PrankVars, InvariantVars, StackVars, TracingVars>>

\* What an action of one part leaves alone: the other parts.
NotTreeVars == <<PrankVars, InvariantVars, StackVars, TracingVars>>
NotPrankVars == <<TreeVars, InvariantVars, StackVars, TracingVars>>
NotInvariantVars == <<TreeVars, PrankVars, StackVars, TracingVars>>
NotStackVars == <<TreeVars, PrankVars, InvariantVars, TracingVars>>
NotTracingVars == <<TreeVars, PrankVars, InvariantVars, StackVars>>

\* Option<T> as a set with at most one element.
None == {}
Some(x) == {x}
Unwrap(o) == CHOOSE x \in o : TRUE

\* ------------------------------------------------------------------------
\* Bounds of the model
\* ------------------------------------------------------------------------

\* Width of the machine word standing for U256 (256 bits in the code).
WordBits == 4

\* Calls counted after a prank was armed.
MaxCalls == 3

\* The call depths the test contract may run at.
MaxDepth == 2

\* Cases of the proptest TestRunner: the runs of one invariant_fuzz call.
MaxRuns == 2

\* The largest invariant_depth invariant_fuzz is called with.
MaxInvariantDepth == 2
MaxFrames == 2
MaxOps == 3
MaxValue == 2
TxGasLimit == 2

\* The nodes of the trace arena and the items recorded in a node's ordering.
MaxNodes == 2
MaxOrdering == 1

\* ------------------------------------------------------------------------
\* U256 arithmetic (ruint: +, - wrap; % panics on a zero divisor)
\* ------------------------------------------------------------------------

Modulus == 2 ^ WordBits
U256_MAX == Modulus - 1
U256 == 0 .. U256_MAX

wrapping_add(a, b) == (a + b) % Modulus
wrapping_sub(a, b) == (a - b + Modulus) % Modulus
saturating_add(a, b) == IF a + b > U256_MAX THEN U256_MAX ELSE a + b
saturating_sub(a, b) == IF a - b < 0 THEN 0 ELSE a - b
\* value << n: zero once n reaches the width
shl(a, n) == IF n >= WordBits THEN 0 ELSE (a * (2 ^ n)) % Modulus

RECURSIVE bitor(_, _)
bitor(a, b) ==
    IF a = 0 /\ b = 0 THEN 0
    ELSE (IF a % 2 = 1 \/ b % 2 = 1 THEN 1 ELSE 0) + 2 * bitor(a \div 2, b \div 2)

\* Ord::clamp asserts min <= max; only call it under ClampOk.
ClampOk(min, max) == min <= max
clamp(v, min, max) == IF v < min THEN min ELSE IF v > max THEN max ELSE v

\* ------------------------------------------------------------------------
\* UintValueTree
\* ------------------------------------------------------------------------

UintValueTree_new(start, fixed, min_bound, max_bound) ==
    [lo |-> 0, curr |-> start, hi |-> start, fixed |-> fixed,
     min_bound |-> min_bound, max_bound |-> max_bound]

\* reposition() with the midpoint rounded up.
reposition_rounding_up(t) ==
    LET interval == wrapping_sub(t.hi, t.lo)
        new_mid == wrapping_add(t.lo, wrapping_add(interval, 1) \div 2)
    IN  IF new_mid = t.curr THEN [tree |-> t, ret |-> FALSE]
        ELSE [tree |-> [t EXCEPT !.curr = new_mid], ret |-> TRUE]

reposition(t) ==
    LET interval == wrapping_sub(t.hi, t.lo)
        new_mid == wrapping_add(t.lo, interval \div 2)
    IN  IF new_mid = t.curr THEN [tree |-> t, ret |-> FALSE]
        ELSE [tree |-> [t EXCEPT !.curr = new_mid], ret |-> TRUE]

\* current() without the clamp.
current_unclamped(t) == t.curr

current(t) == clamp(t.curr, t.min_bound, t.max_bound)

\* simplify() without the check of `fixed`.
simplify_unfixed(t) ==
    IF t.hi <= t.lo THEN [tree |-> t, ret |-> FALSE]
    ELSE reposition([t EXCEPT !.hi = t.curr])

\* simplify() without the hi <= lo guard.
simplify_unguarded(t) ==
    IF t.fixed THEN [tree |-> t, ret |-> FALSE]
    ELSE reposition([t EXCEPT !.hi = t.curr])

simplify(t) ==
    IF t.fixed \/ t.hi <= t.lo THEN [tree |-> t, ret |-> FALSE]
    ELSE reposition([t EXCEPT !.hi = t.curr])

\* complicate() without the hi <= lo guard.
complicate_unguarded(t) ==
    IF t.fixed THEN [tree |-> t, ret |-> FALSE]
    ELSE reposition([t EXCEPT !.lo = wrapping_add(t.curr, 1)])

\* complicate() stopping only at hi < lo.
complicate_strict_guard(t) ==
    IF t.fixed \/ t.hi < t.lo THEN [tree |-> t, ret |-> FALSE]
    ELSE reposition([t EXCEPT !.lo = wrapping_add(t.curr, 1)])

complicate(t) ==
    IF t.fixed \/ t.hi <= t.lo THEN [tree |-> t, ret |-> FALSE]
    ELSE reposition([t EXCEPT !.lo = wrapping_add(t.curr, 1)])

\* Whether a + b, a - b leave 0 .. U256::MAX, the case in which the operators
\* of U256 wrap.
add_overflows(a, b) == a + b > U256_MAX
sub_underflows(a, b) == a < b

\* Whether the arithmetic of reposition(), simplify(), complicate() wraps
\* when called on t.
reposition_wraps(t) ==
    \/ sub_underflows(t.hi, t.lo)
    \/ add_overflows(t.lo, wrapping_sub(t.hi, t.lo) \div 2)

simplify_wraps(t) ==
    /\ ~(t.fixed \/ t.hi <= t.lo)
    /\ reposition_wraps([t EXCEPT !.hi = t.curr])

complicate_wraps(t) ==
    /\ ~(t.fixed \/ t.hi <= t.lo)
    /\ \/ add_overflows(t.curr, 1)
       \/ reposition_wraps([t EXCEPT !.lo = wrapping_add(t.curr, 1)])

\* ------------------------------------------------------------------------
\* UintStrategy
\* ------------------------------------------------------------------------

edge_weight == 10
fixtures_weight == 40
random_weight == 50
total_weight == random_weight + fixtures_weight + edge_weight

\* Bit sizes of the fuzzed uint type: the full word (uint256) and a narrower one.
BitSizes == {WordBits - 1, WordBits}

\* Bounds handed to UintStrategy::new: around 0, the middle and the maximum.
BoundSamples == {0, 1, Modulus \div 2, U256_MAX - 1, U256_MAX}

\* A DynSolValue fixture: a uint of some size, or a value of another type.
UintFixture(v, size) == [is_uint |-> TRUE, value |-> v, size |-> size]
OtherFixture == [is_uint |-> FALSE, value |-> 0, size |-> 0]
FixtureLists ==
    {<<>>, <<OtherFixture>>}
    \cup {<<UintFixture(v, b)>> : v \in {0, U256_MAX}, b \in BitSizes}

type_max(bits) == IF bits < WordBits THEN shl(1, bits) - 1 ELSE U256_MAX

UintStrategy_new(bits, fixtures, min_bound, max_bound, use_log_sampling) ==
    [bits |-> bits,
     fixtures |-> fixtures,
     min_bound |-> IF min_bound = None THEN 0 ELSE Unwrap(min_bound),
     max_bound |-> IF max_bound = None THEN type_max(bits) ELSE Unwrap(max_bound),
     use_log_sampling |-> use_log_sampling]

\* What the random number generator hands out in one new_tree call.
\* rng.gen::<u64>() is a quarter of the word.
U64 == 0 .. (2 ^ (WordBits \div 4) - 1)
NoDraw == [is_min |-> FALSE, offset |-> 0, index |-> 0, random |-> 0,
           random_exp |-> 0, mantissa |-> 0, rand64 |-> 0]

\* generate_random_values_uniformly: any value of at most self.bits bits.
UniformValues(s) == 0 .. (2 ^ s.bits - 1)

Ok(t) == [panic |-> "none", tree |-> Some(t)]
Panic(why) == [panic |-> why, tree |-> None]

generate_edge_tree(s, r) ==
    LET start == IF r.is_min THEN saturating_add(s.min_bound, r.offset)
                 ELSE saturating_sub(s.max_bound, r.offset)
    IN  Ok(UintValueTree_new(start, FALSE, s.min_bound, s.max_bound))

\* Only called with max_bound > min_bound or returning at once.
generate_log_uniform(s, r) ==
    IF s.max_bound <= s.min_bound THEN s.min_bound
    ELSE LET value == clamp(bitor(shl(r.mantissa, r.random_exp), shl(1, r.random_exp)),
                            s.min_bound, s.max_bound)
             range == wrapping_sub(s.max_bound, s.min_bound)
         IN  IF value = s.min_bound /\ range > 0
             THEN wrapping_add(value, r.rand64 % range)
             ELSE value

generate_random_tree(s, r) ==
    LET range == wrapping_add(wrapping_sub(s.max_bound, s.min_bound), 1)
    IN  IF ~s.use_log_sampling /\ s.max_bound > s.min_bound /\ range = 0
        THEN Panic("rem_by_zero")
        ELSE LET start == IF s.use_log_sampling THEN generate_log_uniform(s, r)
                          ELSE IF s.max_bound > s.min_bound
                               THEN wrapping_add(s.min_bound, r.random % range)
                               ELSE s.min_bound
             IN  IF ~ClampOk(s.min_bound, s.max_bound) THEN Panic("clamp")
                 ELSE Ok(UintValueTree_new(clamp(start, s.min_bound, s.max_bound),
                                           FALSE, s.min_bound, s.max_bound))

generate_fixtures_tree(s, r) ==
    IF Len(s.fixtures) = 0 THEN generate_random_tree(s, r)
    ELSE LET fixture == s.fixtures[r.index + 1]
         IN  IF fixture.is_uint /\ fixture.size = s.bits
             THEN IF ~ClampOk(s.min_bound, s.max_bound) THEN Panic("clamp")
                  ELSE Ok(UintValueTree_new(clamp(fixture.value, s.min_bound, s.max_bound),
                                            FALSE, s.min_bound, s.max_bound))
             ELSE generate_random_tree(s, r)

new_tree(s, bias, r) ==
    IF bias < edge_weight THEN generate_edge_tree(s, r)
    ELSE IF bias < edge_weight + fixtures_weight THEN generate_fixtures_tree(s, r)
    ELSE generate_random_tree(s, r)

\* The draws new_tree's branch for `bias` reads; the others stay at NoDraw.
RandomDraws(s) ==
    IF s.use_log_sampling
    THEN {[NoDraw EXCEPT !.random_exp = e, !.mantissa = m, !.rand64 = x] :
            e \in 0 .. WordBits, m \in U64, x \in U64}
    ELSE {[NoDraw EXCEPT !.random = v] : v \in UniformValues(s)}

Draws(s, bias) ==
    IF bias < edge_weight
    THEN {[NoDraw EXCEPT !.is_min = b, !.offset = o] : b \in BOOLEAN, o \in 0 .. 3}
    ELSE IF bias < edge_weight + fixtures_weight /\ Len(s.fixtures) > 0
    THEN {[d EXCEPT !.index = i] : d \in RandomDraws(s), i \in 0 .. (Len(s.fixtures) - 1)}
    ELSE RandomDraws(s)

BiasSamples ==
    {0, edge_weight - 1, edge_weight, edge_weight + fixtures_weight - 1,
     edge_weight + fixtures_weight, total_weight - 1}

\* ------------------------------------------------------------------------
\* The value tree's state machine
\* ------------------------------------------------------------------------

\* The trail keeps the last two calls.
Record(op, before) ==
    LET all == Append(trail, [op |-> op, before |-> before])
    IN  IF Len(all) > 2 THEN Tail(all) ELSE all

TreeInit ==
    /\ \E bits \in BitSizes, fixtures \in FixtureLists,
          min_bound \in {None} \cup {Some(v) : v \in BoundSamples},
          max_bound \in {None} \cup {Some(v) : v \in BoundSamples},
          use_log_sampling \in BOOLEAN :
          strategy = UintStrategy_new(bits, fixtures, min_bound, max_bound, use_log_sampling)
    /\ tree = None
    /\ tree_pc = "none"
    /\ ret = None
    /\ trail = <<>>
    /\ threshold = 0 /\ last_failing = None /\ shrink_pc = "none"

\* Strategy::new_tree
NewTree ==
    /\ tree_pc = "none"
    /\ \E bias \in BiasSamples : \E r \in Draws(strategy, bias) :
         LET res == new_tree(strategy, bias, r)
         IN  /\ tree' = res.tree
             /\ tree_pc' = IF res.panic = "none" THEN "new_tree" ELSE "panic"
    /\ UNCHANGED <<strategy, ret, trail, ShrinkVars, NotTreeVars>>

\* UintValueTree::new called directly, as the tree's unit test does.
NewDirect ==
    /\ tree_pc = "none"
    /\ \E start \in U256, fixed \in BOOLEAN :
         tree' = Some(UintValueTree_new(start, fixed, strategy.min_bound, strategy.max_bound))
    /\ tree_pc' = "new"
    /\ UNCHANGED <<strategy, ret, trail, ShrinkVars, NotTreeVars>>

Simplify ==
    /\ tree # None
    /\ LET res == simplify(Unwrap(tree))
       IN  /\ tree' = Some(res.tree)
           /\ ret' = Some(res.ret)
    /\ trail' = Record("simplify", Unwrap(tree))
    /\ UNCHANGED <<strategy, tree_pc, ShrinkVars, NotTreeVars>>

Complicate ==
    /\ tree # None
    /\ LET res == complicate(Unwrap(tree))
       IN  /\ tree' = Some(res.tree)
           /\ ret' = Some(res.ret)
    /\ trail' = Record("complicate", Unwrap(tree))
    /\ UNCHANGED <<strategy, tree_pc, ShrinkVars, NotTreeVars>>

TreeNext == NewTree \/ NewDirect \/ Simplify \/ Complicate

\* ---- a tree driven the way a shrinking test runner drives it: simplify()
\* after a current() the test fails for, complicate() after one it passes,
\* until the call returns false.

\* The test: it fails exactly for the values >= threshold.
Fails(v) == v >= threshold

\* The bounds are such that current() never clamps a value up to max_bound.
ShrinkInit ==
    /\ \E max_bound \in {None} \cup {Some(v) : v \in BoundSamples} :
          strategy = UintStrategy_new(WordBits, <<>>, None, max_bound, FALSE)
    /\ threshold \in U256
    /\ threshold <= strategy.max_bound
    /\ tree = None /\ tree_pc = "none" /\ ret = None /\ trail = <<>>
    /\ last_failing = None /\ shrink_pc = "none"

\* After a call on the tree: the runner stops when it returned false, and
\* else runs the test on the new current().
Shrunk(res) ==
    /\ tree' = Some(res.tree)
    /\ ret' = Some(res.ret)
    /\ shrink_pc' = IF res.ret THEN "shrinking" ELSE "done"
    /\ last_failing' = IF res.ret /\ Fails(current(res.tree)) THEN Some(current(res.tree))
                       ELSE last_failing

\* A new tree whose value the test fails for.
ShrinkNew ==
    /\ shrink_pc = "none"
    /\ \E start \in threshold .. strategy.max_bound :
          /\ tree' = Some(UintValueTree_new(start, FALSE, strategy.min_bound, strategy.max_bound))
          /\ last_failing' = Some(start)
    /\ tree_pc' = "new"
    /\ shrink_pc' = "shrinking"
    /\ UNCHANGED <<strategy, ret, trail, threshold, NotTreeVars>>

ShrinkSimplify ==
    /\ shrink_pc = "shrinking"
    /\ Fails(current(Unwrap(tree)))
    /\ Shrunk(simplify(Unwrap(tree)))
    /\ trail' = Record("simplify", Unwrap(tree))
    /\ UNCHANGED <<strategy, tree_pc, threshold, NotTreeVars>>

ShrinkComplicate ==
    /\ shrink_pc = "shrinking"
    /\ ~Fails(current(Unwrap(tree)))
    /\ Shrunk(complicate(Unwrap(tree)))
    /\ trail' = Record("complicate", Unwrap(tree))
    /\ UNCHANGED <<strategy, tree_pc, threshold, NotTreeVars>>

ShrinkNext == ShrinkNew \/ ShrinkSimplify \/ ShrinkComplicate


\* ------------------------------------------------------------------------
\* Prank
\* ------------------------------------------------------------------------

Addresses == {"0xAAAA", "0xBEEF", "0xC0DE"}

Prank_new(prank_caller, prank_origin, new_caller, new_origin, depth, single_call, delegate_call) ==
    [prank_caller |-> prank_caller, prank_origin |-> prank_origin,
     new_caller |-> new_caller, new_origin |-> new_origin, depth |-> depth,
     single_call |-> single_call, delegate_call |-> delegate_call, used |-> FALSE]

\* first_time_applied that hands the prank back without marking it used.
first_time_applied_unmarked(p) == IF p.used THEN None ELSE Some(p)

first_time_applied(p) == IF p.used THEN None ELSE Some([p EXCEPT !.used = TRUE])

\* prank() without the check that the stored prank was used.
prank_overwriting(state, cx, origin, new_caller, new_origin, single_call, delegate_call) ==
    LET new == Prank_new(cx.caller, origin, new_caller, new_origin, cx.depth,
                         single_call, delegate_call)
    IN  IF state.prank # None /\ single_call # Unwrap(state.prank).single_call
        THEN [state |-> state, result |-> "cannot override an ongoing prank"]
        ELSE IF state.broadcast # None
        THEN [state |-> state, result |-> "cannot prank for a broadcasted transaction"]
        ELSE [state |-> [state EXCEPT !.prank = Some(new)], result |-> "ok"]

\* fn prank: the new state of the cheatcodes and the Result.
\* prank() without the check of lines 151-155.
prank_while_broadcasting(state, cx, origin, new_caller, new_origin, single_call, delegate_call) ==
    LET new == Prank_new(cx.caller, origin, new_caller, new_origin, cx.depth,
                         single_call, delegate_call)
    IN  IF state.prank # None /\ ~Unwrap(state.prank).used
        THEN [state |-> state, result |-> "cannot overwrite a prank until it is applied"]
        ELSE IF state.prank # None /\ single_call # Unwrap(state.prank).single_call
        THEN [state |-> state, result |-> "cannot override an ongoing prank"]
        ELSE [state |-> [state EXCEPT !.prank = Some(new)], result |-> "ok"]

\* prank() without the check of lines 140-149.
prank_toggling(state, cx, origin, new_caller, new_origin, single_call, delegate_call) ==
    LET new == Prank_new(cx.caller, origin, new_caller, new_origin, cx.depth,
                         single_call, delegate_call)
    IN  IF state.prank # None /\ ~Unwrap(state.prank).used
        THEN [state |-> state, result |-> "cannot overwrite a prank until it is applied"]
        ELSE IF state.broadcast # None
        THEN [state |-> state, result |-> "cannot prank for a broadcasted transaction"]
        ELSE [state |-> [state EXCEPT !.prank = Some(new)], result |-> "ok"]

prank(state, cx, origin, new_caller, new_origin, single_call, delegate_call) ==
    LET new == Prank_new(cx.caller, origin, new_caller, new_origin, cx.depth,
                         single_call, delegate_call)
    IN  IF state.prank # None /\ ~Unwrap(state.prank).used
        THEN [state |-> state, result |-> "cannot overwrite a prank until it is applied"]
        ELSE IF state.prank # None /\ single_call # Unwrap(state.prank).single_call
        THEN [state |-> state, result |-> "cannot override an ongoing prank"]
        ELSE IF state.broadcast # None
        THEN [state |-> state, result |-> "cannot prank for a broadcasted transaction"]
        ELSE [state |-> [state EXCEPT !.prank = Some(new)], result |-> "ok"]

prank_0Call(state, cx, origin, msgSender) ==
    prank(state, cx, origin, msgSender, None, TRUE, FALSE)
startPrank_0Call(state, cx, origin, msgSender) ==
    prank(state, cx, origin, msgSender, None, FALSE, FALSE)
prank_1Call(state, cx, origin, msgSender, txOrigin) ==
    prank(state, cx, origin, msgSender, Some(txOrigin), TRUE, FALSE)
startPrank_1Call(state, cx, origin, msgSender, txOrigin) ==
    prank(state, cx, origin, msgSender, Some(txOrigin), FALSE, FALSE)
prank_2Call(state, cx, origin, msgSender, txOrigin, delegateCall) ==
    prank(state, cx, origin, msgSender, Some(txOrigin), TRUE, delegateCall)
startPrank_2Call(state, cx, origin, msgSender, txOrigin, delegateCall) ==
    prank(state, cx, origin, msgSender, Some(txOrigin), FALSE, delegateCall)

stopPrankCall(state) == [state |-> [state EXCEPT !.prank = None], result |-> "ok"]

PrankInit ==
    /\ ccx \in [caller : Addresses, depth : 1 .. MaxDepth]
    /\ env_tx_caller \in Addresses
    /\ cheats = [prank |-> None, broadcast |-> None]
    /\ in_call = FALSE
    /\ observed = None
    /\ cheat_op = "none"
    /\ cheat_result = "none"
    /\ cheats_before = cheats
    /\ last_arm = None
    /\ calls_since_arm = 0

\* What a cheatcode leaves behind: the state, the Result, and the history.
Cheat(op, res) ==
    /\ ~in_call
    /\ cheats' = res.state
    /\ cheat_op' = op
    /\ cheat_result' = res.result
    /\ cheats_before' = cheats
    /\ last_arm' = IF op = "stopPrank" THEN None
                   ELSE IF op = "prank" /\ res.result = "ok" THEN res.state.prank
                   ELSE last_arm
    /\ calls_since_arm' = IF op = "prank" /\ res.result = "ok" THEN 0 ELSE calls_since_arm
    /\ UNCHANGED <<ccx, env_tx_caller, in_call, observed, NotPrankVars>>

\* The six prank/startPrank cheatcodes.
Arm ==
    \E msgSender \in Addresses, txOrigin \in Addresses, delegateCall \in BOOLEAN :
        \/ Cheat("prank", prank_0Call(cheats, ccx, env_tx_caller, msgSender))
        \/ Cheat("prank", startPrank_0Call(cheats, ccx, env_tx_caller, msgSender))
        \/ Cheat("prank", prank_1Call(cheats, ccx, env_tx_caller, msgSender, txOrigin))
        \/ Cheat("prank", startPrank_1Call(cheats, ccx, env_tx_caller, msgSender, txOrigin))
        \/ Cheat("prank", prank_2Call(cheats, ccx, env_tx_caller, msgSender, txOrigin,
                                      delegateCall))
        \/ Cheat("prank", startPrank_2Call(cheats, ccx, env_tx_caller, msgSender, txOrigin,
                                           delegateCall))

StopPrank == Cheat("stopPrank", stopPrankCall(cheats))

\* A broadcast begins (never while a prank is stored) or ends.
StartBroadcast ==
    /\ cheats.prank = None
    /\ cheats.broadcast = None
    /\ Cheat("broadcast", [state |-> [cheats EXCEPT !.broadcast = Some(ccx.caller)],
                           result |-> "ok"])

StopBroadcast ==
    /\ cheats.broadcast # None
    /\ Cheat("stopBroadcast", [state |-> [cheats EXCEPT !.broadcast = None],
                               result |-> "ok"])

\* The call hook of the cheatcodes inspector for a call of the test contract:
\* a stored prank substitutes the caller (and the origin) of this call and is
\* marked used the first time.
apply_prank(state) ==
    IF state.prank = None THEN state
    ELSE LET applied == first_time_applied(Unwrap(state.prank))
         IN  IF applied = None THEN state ELSE [state EXCEPT !.prank = applied]

Call ==
    /\ ~in_call
    /\ in_call' = TRUE
    /\ LET origin == IF cheats.prank # None /\ Unwrap(cheats.prank).new_origin # None
                     THEN Unwrap(Unwrap(cheats.prank).new_origin)
                     ELSE env_tx_caller
       IN  /\ observed' = Some([caller |-> IF cheats.prank = None THEN ccx.caller
                                           ELSE Unwrap(cheats.prank).new_caller,
                                origin |-> origin])
           /\ env_tx_caller' = origin
    /\ cheats' = apply_prank(cheats)
    /\ cheat_op' = "call"
    /\ cheats_before' = cheats
    /\ calls_since_arm' = IF calls_since_arm < MaxCalls THEN calls_since_arm + 1
                          ELSE calls_since_arm
    /\ UNCHANGED <<ccx, cheat_result, last_arm, NotPrankVars>>

\* The call_end hook: the origin is restored and a single-call prank is dropped.
CallEnd ==
    /\ in_call
    /\ in_call' = FALSE
    /\ env_tx_caller' = IF cheats.prank = None THEN env_tx_caller
                        ELSE Unwrap(cheats.prank).prank_origin
    /\ cheats' = IF cheats.prank # None /\ Unwrap(cheats.prank).single_call
                 THEN [cheats EXCEPT !.prank = None] ELSE cheats
    /\ cheat_op' = "call_end"
    /\ cheats_before' = cheats
    /\ UNCHANGED <<ccx, observed, cheat_result, last_arm, calls_since_arm, NotPrankVars>>

PrankNext == Arm \/ StopPrank \/ StartBroadcast \/ StopBroadcast \/ Call \/ CallEnd

\* ------------------------------------------------------------------------
\* Invariant fuzz executor
\* ------------------------------------------------------------------------

INVARIANT_ADDRESS == "0xINV"
\* InvariantExecutor::sender, the caller of the invariant functions.
self_sender == "0xSELF"
CHEATCODE_ADDRESS == "0x7109709ECfa91a80626fF3989D68f67F5b1DD12D"
CONSOLE_ADDRESS == "0x000000000000000000636F6e736F6c652e6c6f67"

\* self.contracts: the known contracts, each with the functions of its ABI.
Function(name, state_mutability) == [name |-> name, state_mutability |-> state_mutability]
KnownContracts ==
    [a \in {INVARIANT_ADDRESS, CHEATCODE_ADDRESS, CONSOLE_ADDRESS, "0xT1", "0xT2"} |->
        CASE a = "0xT1" -> {Function("f", "NonPayable"), Function("v", "View")}
          [] a = "0xT2" -> {Function("g", "Payable"), Function("p", "Pure")}
          [] OTHER -> {Function("h", "NonPayable")}]

\* The invariant functions, in the order of the `invariants` vector.
Invariants == <<"invariant_a", "invariant_b">>
InvariantNames == {Invariants[i] : i \in 1 .. Len(Invariants)}

\* What targetContracts() and targetSenders() of the invariant contract answer.
TargetContractsAnswers == {<<>>, <<"0xT1">>, <<"0xT1", INVARIANT_ADDRESS>>}
TargetSendersAnswers == {<<>>, <<"0xS1">>}
\* fuzz_param(&ParamType::Address): the senders drawn when none is selected.
FuzzedAddresses == {"0xS1"}

Range(seq) == {seq[i] : i \in 1 .. Len(seq)}

select_senders(st) == st.target_senders

\* select_contracts without the filter.
select_contracts_unfiltered(st) == DOMAIN st.contracts

select_contracts(st) ==
    {addr \in DOMAIN st.contracts :
        /\ addr # INVARIANT_ADDRESS
        /\ addr # CHEATCODE_ADDRESS
        /\ addr # CONSOLE_ADDRESS
        /\ (st.target_contracts = <<>> \/ addr \in Range(st.target_contracts))}

select_random_function(abi) ==
    {func \in abi : func.state_mutability \notin {"Pure", "View"}}

select_random_sender(senders) ==
    IF senders # <<>> THEN Range(senders) ELSE FuzzedAddresses

\* gen_call: the (sender, (address, calldata)) elements the strategy draws.
gen_call(senders, contracts, st) ==
    UNION {{[sender |-> sender, address |-> contract, calldata |-> func.name] :
                sender \in select_random_sender(senders),
                func \in select_random_function(st.contracts[contract])} :
           contract \in contracts}

RECURSIVE SeqsUpTo(_, _)
SeqsUpTo(S, n) ==
    IF n = 0 THEN {<<>>}
    ELSE LET shorter == SeqsUpTo(S, n - 1)
         IN  shorter \cup {Append(q, x) : q \in shorter, x \in S}

\* invariant_strat with the inclusive range 1..=depth + 1.
invariant_strat_inclusive(depth, senders, contracts, st) ==
    SeqsUpTo(gen_call(senders, contracts, st), depth + 1) \ {<<>>}

\* invariant_strat: vectors of 1..depth elements.
invariant_strat(depth, senders, contracts, st) ==
    SeqsUpTo(gen_call(senders, contracts, st), depth) \ {<<>>}

\* InvariantFuzzError::new keeping the sequence without its last call.
InvariantFuzzError_new_truncated(invariant_address, func, result, the_inputs) ==
    [addr |-> invariant_address, func |-> func, revert_reason |-> result,
     test_error |-> SubSeq(the_inputs, 1, Len(the_inputs) - 1)]

\* InvariantFuzzError::new
InvariantFuzzError_new(invariant_address, func, result, the_inputs) ==
    [addr |-> invariant_address, func |-> func, revert_reason |-> result,
     test_error |-> the_inputs]

FuzzCase(calldata, gas, stipend) == [calldata |-> calldata, gas |-> gas, stipend |-> stipend]

\* What the backend answers to a call: reverted or not, or an error.
CallOutcomes == {"ok", "reverted", "error"}
\* What an invariant call amounts to: it holds, it reverts, is_success is
\* false, or the backend fails.
CheckOutcomes == {"ok", "reverted", "unsuccessful", "error"}
RevertData == {"", "reason"}

InvariantInit ==
    /\ \E depth \in 1 .. MaxInvariantDepth, tc \in TargetContractsAnswers,
          ts \in TargetSendersAnswers :
          setup = [invariant_depth |-> depth, contracts |-> KnownContracts,
                   target_contracts |-> tc, target_senders |-> ts]
    /\ inv_pc = "idle"
    /\ runs = 0
    /\ inputs = <<>>
    /\ pos = 1
    /\ db = {}
    /\ clean_db = {}
    /\ invariant_doesnt_hold = [n \in InvariantNames |-> None]
    /\ fuzz_cases = <<>>
    /\ first_failure = [n \in InvariantNames |-> None]
    /\ executed = <<>>
    /\ outcome = None

\* The runner draws the inputs of the next case.
GenerateRun ==
    /\ inv_pc = "idle"
    /\ runs < MaxRuns
    /\ inputs' \in invariant_strat(setup.invariant_depth, select_senders(setup),
                                   select_contracts(setup), setup)
    /\ pos' = 1
    /\ executed' = <<>>
    /\ outcome' = None
    /\ inv_pc' = "run"
    /\ UNCHANGED <<setup, runs, db, clean_db, invariant_doesnt_hold, fuzz_cases,
                   first_failure, NotInvariantVars>>

\* The index of the first invariant whose check does not pass, 0 if all pass.
RECURSIVE FirstFailing(_, _)
FirstFailing(checks, i) ==
    IF i > Len(Invariants) THEN 0
    ELSE IF checks[Invariants[i]] # "ok" THEN i
    ELSE FirstFailing(checks, i + 1)

\* The insert left out.
record_violation_dropped(map, name, err) == map

\* invariant_doesnt_hold.borrow_mut().insert(func.name.clone(), Some(..))
record_violation(map, name, err) == [map EXCEPT ![name] = Some(err)]

\* The position after `break 'all`: past the end of the inputs.
break_all(the_inputs) == Len(the_inputs) + 1

\* A reverted call taken for the end of the sequence.
continue_on_stopping(p, the_inputs) == break_all(the_inputs)

\* "call failed, continue on": the loop goes to the next element.
continue_on(p, the_inputs) == p + 1

\* The push made for a reverted call as well.
push_case_always(cases, reverted, case) == Append(cases, case)

\* if !reverted { .. fuzz_cases.borrow_mut().push(FuzzCase { .. }) }
push_case(cases, reverted, case) == IF reverted THEN cases ELSE Append(cases, case)

\* The reset left out.
reset_db_skipped(d, clean) == d

\* executor.borrow_mut().db = clean_db.clone()
reset_db(d, clean) == clean

\* Result::expect with the Err let through.
expect_ignoring(is_ok, pc) == pc

\* Result::expect: an Err panics, an Ok goes on.
expect(is_ok, pc) == IF is_ok THEN pc ELSE "panic"

\* The closure failing its case once a violation is recorded.
closure_result_failing(doesnt_hold) ==
    IF \E n \in DOMAIN doesnt_hold : doesnt_hold[n] # None THEN "Err" ELSE "Ok"

\* The value of the closure: Ok(()) whatever was recorded.
closure_result(doesnt_hold) == "Ok"

\* Executor::call_raw_committing: the state changes of a call that did not
\* revert are written to the executor's database.
call_raw_committing(d, input) == d \cup {input}

\* A call_raw that writes like call_raw_committing.
call_raw_writing(d, sender, address, func) ==
    d \cup {[sender |-> sender, address |-> address, calldata |-> func]}

\* Executor::call_raw: the call runs on the database and leaves it as it was.
call_raw(d, sender, address, func) == d

\* The invariant functions called in an iteration whose first failing check
\* is the failing-th (0: none fails): the loop over `invariants` stops there.
checked(failing) == IF failing = 0 THEN Invariants ELSE SubSeq(Invariants, 1, failing)

\* The database after the invariant calls of an iteration.
RECURSIVE check_invariants(_, _)
check_invariants(d, funcs) ==
    IF funcs = <<>> THEN d
    ELSE check_invariants(call_raw(d, self_sender, INVARIANT_ADDRESS, Head(funcs)), Tail(funcs))

\* How an iteration of the 'all loop went (history).
Outcome(p, kind, name, funcs) ==
    [pos |-> p, kind |-> kind, name |-> name, checked |-> funcs, db_before |-> db,
     cases_before |-> fuzz_cases, doesnt_hold_before |-> invariant_doesnt_hold]

\* One iteration of the 'all loop: the fuzzed call, then the invariant checks.
ExecCall ==
    /\ inv_pc = "run"
    /\ pos <= Len(inputs)
    /\ executed' = Append(executed, pos)
    /\ \E call \in CallOutcomes, checks \in [InvariantNames -> CheckOutcomes],
          result \in RevertData :
         LET input == inputs[pos]
             failing == FirstFailing(checks, 1)
             name == Invariants[failing]
             err == InvariantFuzzError_new(INVARIANT_ADDRESS, name, result, inputs)
             case == FuzzCase(input.calldata, 1, 0)
         IN  CASE call = "error" ->
                    \* .expect("could not make raw evm call")
                    /\ inv_pc' = expect(FALSE, inv_pc)
                    /\ outcome' = Some(Outcome(pos, "call_error", "", <<>>))
                    /\ UNCHANGED <<pos, db, invariant_doesnt_hold, fuzz_cases, first_failure>>
               [] call = "reverted" ->
                    \* call failed, continue on
                    /\ pos' = continue_on(pos, inputs)
                    /\ fuzz_cases' = push_case(fuzz_cases, TRUE, case)
                    /\ outcome' = Some(Outcome(pos, "call_reverted", "", <<>>))
                    /\ UNCHANGED <<inv_pc, db, invariant_doesnt_hold, first_failure>>
               [] call = "ok" /\ failing = 0 ->
                    /\ db' = check_invariants(call_raw_committing(db, input), checked(failing))
                    /\ fuzz_cases' = push_case(fuzz_cases, FALSE, case)
                    /\ pos' = pos + 1
                    /\ outcome' = Some(Outcome(pos, "passed", "", checked(failing)))
                    /\ UNCHANGED <<inv_pc, invariant_doesnt_hold, first_failure>>
               [] call = "ok" /\ failing # 0 /\ checks[name] = "error" ->
                    \* .expect("EVM error")
                    /\ db' = check_invariants(call_raw_committing(db, input), checked(failing))
                    /\ inv_pc' = expect(FALSE, inv_pc)
                    /\ outcome' = Some(Outcome(pos, "check_error", name, checked(failing)))
                    /\ UNCHANGED <<pos, invariant_doesnt_hold, fuzz_cases, first_failure>>
               [] OTHER ->
                    \* the invariant reverted or is_success is false: break 'all
                    /\ db' = check_invariants(call_raw_committing(db, input), checked(failing))
                    /\ invariant_doesnt_hold' = record_violation(invariant_doesnt_hold, name, err)
                    /\ first_failure' = IF first_failure[name] = None
                                        THEN [first_failure EXCEPT ![name] = Some(err)]
                                        ELSE first_failure
                    /\ pos' = break_all(inputs)
                    /\ outcome' = Some(Outcome(pos, checks[name], name, checked(failing)))
                    /\ UNCHANGED <<inv_pc, fuzz_cases>>
    /\ UNCHANGED <<setup, runs, inputs, clean_db, NotInvariantVars>>

\* The end of the closure: the database is reset and the case counts.
EndRun ==
    /\ inv_pc = "run"
    /\ pos > Len(inputs)
    /\ db' = reset_db(db, clean_db)
    /\ runs' = runs + 1
    /\ inv_pc' = IF closure_result(invariant_doesnt_hold) = "Err" THEN "failed"
                 ELSE IF runs + 1 = MaxRuns THEN "done" ELSE "idle"
    /\ UNCHANGED <<setup, inputs, pos, clean_db, invariant_doesnt_hold, fuzz_cases,
                   first_failure, executed, outcome, NotInvariantVars>>

\* runner.run() returns Err(test_error) for a case whose closure panicked or
\* returned Err (a panic may as well go on unwinding through run()): the map of
\* lines 152-159 unwraps revert_reason, which holds the None of line 67.
TestError ==
    /\ inv_pc \in {"panic", "failed"}
    /\ inv_pc' = "aborted"
    /\ UNCHANGED <<setup, runs, inputs, pos, db, clean_db, invariant_doesnt_hold, fuzz_cases,
                   first_failure, executed, outcome, NotInvariantVars>>

InvariantNext == GenerateRun \/ ExecCall \/ EndRun \/ TestError

\* ------------------------------------------------------------------------
\* Inspector stack (crates/evm/evm/src/inspectors/stack.rs, logs.rs)
\* ------------------------------------------------------------------------

\* The Option<..> fields of InspectorStack.
Inspectors ==
    {"cheatcodes", "chisel_state", "coverage", "debugger", "fuzzer", "log_collector",
     "printer", "tracer"}

\* The inspectors whose hooks are outside logs.rs: what they answer is an input.
Answering == Inspectors \ {"log_collector"}

\* The stacks the model is run with.
InspectorSets == {{}, {"log_collector", "cheatcodes"}, Inspectors}

\* The inspectors that answer a call or create hook, or change the result in an
\* end hook: the first, one in the middle and the last of the order.
Deciding == {"fuzzer", "cheatcodes", "printer"}

HARDHAT_CONSOLE_ADDRESS == CONSOLE_ADDRESS
ADDRESS_ZERO == "0x0000000000000000000000000000000000000000"
EOA == "0xE0A0"
TEST_CONTRACT == "0x7E57"
NEW_CONTRACT == "0xC4EA"
StackAccounts == {EOA, TEST_CONTRACT, NEW_CONTRACT, HARDHAT_CONSOLE_ADDRESS}
Slots == {"slot0"}
Values == 1 .. MaxValue
EmptyBytes == ""

\* ---- revm's State: a map address -> Account, and the backend behind it
EmptyMap == [k \in {} |-> {}]
Put(m, k, v) == [x \in DOMAIN m \cup {k} |-> IF x = k THEN v ELSE m[x]]

\* HashMap::extend: the entries of n replace or join those of m.
extend(m, n) == [k \in DOMAIN m \cup DOMAIN n |-> IF k \in DOMAIN n THEN n[k] ELSE m[k]]

EmptyDb == [a \in StackAccounts |-> [info |-> [nonce |-> 0], storage |-> EmptyMap]]

\* DatabaseCommit::commit: the touched accounts of the state are written.
commit(d, state) ==
    [a \in StackAccounts |->
        IF a \in DOMAIN state /\ "Touched" \in state[a].status
        THEN [info |-> state[a].info, storage |-> extend(d[a].storage, state[a].storage)]
        ELSE d[a]]

\* JournaledState::load_account: an account not yet in the state comes from the backend.
load_account(state, d, a) ==
    IF a \in DOMAIN state THEN state
    ELSE Put(state, a, [status |-> {}, info |-> d[a].info, storage |-> EmptyMap])

touch(state, a) == [state EXCEPT ![a].status = @ \cup {"Touched"}]

\* SSTORE by the running contract.
sstore(state, d, a, slot, v) ==
    LET st == load_account(state, d, a) IN [st EXCEPT ![a].storage = Put(@, slot, v)]

\* What transact() does before the top-level call or create: the caller is
\* loaded and touched and its nonce is raised.
transact_begin(d, caller) ==
    LET st == touch(load_account(EmptyMap, d, caller), caller)
    IN  [st EXCEPT ![caller].info.nonce = @ + 1]

\* ---- Gas
Gas_new(limit) == [limit |-> limit, used |-> 0, refunded |-> 0]
record_cost(gas, cost) == IF gas.used + cost > gas.limit THEN gas ELSE [gas EXCEPT !.used = @ + cost]
set_refund(gas, refund) == [gas EXCEPT !.refunded = refund]

\* ---- call and create inputs
NoInput == [selector |-> "", args |-> ""]
ConsoleInputs == {[selector |-> "log(uint)", args |-> "7"], [selector |-> "nonsense", args |-> ""]}

CallInputs(contract, caller, input, is_static) ==
    [contract |-> contract, caller |-> caller, input |-> input, gas_limit |-> TxGasLimit,
     is_static |-> is_static, value |-> 0]

CreateInputs(caller) ==
    [caller |-> caller, scheme |-> "Create", value |-> 0, init_code |-> "init",
     gas_limit |-> TxGasLimit]

\* The top-level call of the outer transaction.
TopCall == CallInputs(TEST_CONTRACT, EOA, NoInput, FALSE)

\* The calls a running contract makes: to the test contract, and console.log calls.
CallsFrom(caller) ==
    {CallInputs(TEST_CONTRACT, caller, NoInput, st) : st \in BOOLEAN}
        \cup {CallInputs(HARDHAT_CONSOLE_ADDRESS, caller, i, TRUE) : i \in ConsoleInputs}

\* The logs a running contract emits.
LogsOf(address) == {[address |-> address, topics |-> <<"Transfer">>, data |-> "0x01"]}

Continue(gas_limit) == [status |-> "Continue", gas |-> Gas_new(gas_limit), output |-> EmptyBytes]
CreateContinue(gas_limit) == [status |-> "Continue", address |-> None, gas |-> Gas_new(gas_limit), output |-> EmptyBytes]

\* return_revert!(): the statuses after which cheatcodes roll back.
return_revert == {"Revert", "CallTooDeep", "OutOfFund"}

\* How a frame ends; the top-level frame of the inner transaction may also halt.
FrameExits(top_of_inner) ==
    {"Return", "Revert"} \cup IF top_of_inner THEN {"OutOfGas"} ELSE {}

\* ---- LogCollector (logs.rs)
patch_hh_console_selector(input) ==
    IF input.selector = "log(uint)" THEN [input EXCEPT !.selector = "log(uint256)"] ELSE input

\* HardhatConsoleCalls::abi_decode: Ok(call) as Some(call), Err as None.
HardhatConsoleCalls_abi_decode(input) ==
    IF input.selector \in {"log(uint256)", "log(string)"} THEN Some(input) ELSE None

convert_hh_log_to_event(call) ==
    [address |-> ADDRESS_ZERO, topics |-> <<"log(string)">>, data |-> call.args]

hardhat_log(logs, input) ==
    LET decoded == HardhatConsoleCalls_abi_decode(patch_hh_console_selector(input))
    IN  IF decoded = None
        THEN [logs |-> logs, status |-> "Revert", reason |-> "abi_decode"]
        ELSE [logs |-> Append(logs, convert_hh_log_to_event(Unwrap(decoded))),
              status |-> "Continue", reason |-> EmptyBytes]

LogCollector_log_front(logs, address, topics, data) == <<[address |-> address, topics |-> topics, data |-> data]>> \o logs

LogCollector_log(logs, address, topics, data) == Append(logs, [address |-> address, topics |-> topics, data |-> data])

LogCollector_call(logs, call) ==
    LET r == IF call.contract = HARDHAT_CONSOLE_ADDRESS
             THEN hardhat_log(logs, call.input)
             ELSE [logs |-> logs, status |-> "Continue", reason |-> EmptyBytes]
    IN  [logs |-> r.logs,
         result |-> [status |-> r.status, gas |-> Gas_new(call.gas_limit), output |-> r.reason]]

\* ---- what the other inspectors answer
\* At most one of the configured inspectors of the hook's list answers decisively.
Deciders(configured, list) ==
    {D \in SUBSET (configured \cap Deciding \cap Range(list)) : Cardinality(D) <= 1}

CallAnswers(configured, list, gas_limit) ==
    {[i \in Answering |->
        IF i \in D THEN [status |-> s, gas |-> Gas_new(gas_limit), output |-> i]
        ELSE Continue(gas_limit)] :
     D \in Deciders(configured, list), s \in {"Return", "Revert"}}

CreateAnswers(configured, list, gas_limit) ==
    {[i \in Inspectors |->
        IF i \in D THEN [status |-> s, address |-> None, gas |-> Gas_new(gas_limit), output |-> i]
        ELSE CreateContinue(gas_limit)] :
     D \in Deciders(configured, list), s \in {"Return", "Revert"}}

\* For call_end and create_end an inspector that has nothing to say returns what
\* it was given; the first inspector of the list may also return the status it
\* was given with an output of its own.
EndAnswers(configured, list, incoming) ==
    {[i \in Inspectors |->
        IF i \in D THEN [incoming EXCEPT !.status = s, !.output = i]
        ELSE IF i \in E THEN [incoming EXCEPT !.output = i]
        ELSE incoming] :
     D \in Deciders(configured, list), s \in {"Return", "Revert"},
     E \in SUBSET (configured \cap {Head(list)})}

\* ---- call_inspectors! and the hooks of InspectorStack (stack.rs)
CallOrder == <<"fuzzer", "debugger", "tracer", "coverage", "log_collector", "cheatcodes", "printer">>
CreateOrder == <<"debugger", "tracer", "coverage", "log_collector", "cheatcodes", "printer">>
LogOrder == <<"tracer", "log_collector", "cheatcodes", "printer">>

\* The first arm of the macro with every early return removed.
RECURSIVE call_inspectors_all(_, _, _)
call_inspectors_all(list, configured, answer) ==
    IF list = <<>> THEN [invoked |-> <<>>, result |-> None]
    ELSE LET i == Head(list)
             rest == call_inspectors_all(Tail(list), configured, answer)
         IN  IF i \notin configured THEN rest
             ELSE [invoked |-> <<i>> \o rest.invoked,
                   result |-> IF answer[i] # None THEN answer[i] ELSE rest.result]

\* The first arm of the macro: the configured inspectors of the list in order;
\* answer[i] is what the closure yields for inspector i, and the first Some(result)
\* is returned from the hook.
RECURSIVE call_inspectors_each(_, _, _)
call_inspectors_each(list, configured, answer) ==
    IF list = <<>> THEN [invoked |-> <<>>, result |-> None]
    ELSE LET i == Head(list) IN
         IF i \notin configured THEN call_inspectors_each(Tail(list), configured, answer)
         ELSE IF answer[i] # None THEN [invoked |-> <<i>>, result |-> answer[i]]
         ELSE LET rest == call_inspectors_each(Tail(list), configured, answer)
              IN  [invoked |-> <<i>> \o rest.invoked, result |-> rest.result]

\* The second arm with the depth left raised when an inspector ends the dispatch.
call_inspectors_unbalanced(list, configured, answer, in_inner_ctx, depth) ==
    LET raised == IF in_inner_ctx THEN depth + 1 ELSE depth
        r == call_inspectors_each(list, configured, answer)
    IN  [invoked |-> r.invoked, result |-> r.result, dispatch_depth |-> raised,
         depth |-> IF r.result # None
                   THEN raised
                   ELSE (IF in_inner_ctx THEN raised - 1 ELSE raised)]

\* The second arm: the depth is raised around the dispatch in the inner context.
call_inspectors(list, configured, answer, in_inner_ctx, depth) ==
    LET raised == IF in_inner_ctx THEN depth + 1 ELSE depth
        r == call_inspectors_each(list, configured, answer)
    IN  [invoked |-> r.invoked, result |-> r.result, dispatch_depth |-> raised,
         depth |-> IF r.result # None
                   THEN (IF in_inner_ctx THEN raised - 1 ELSE raised)
                   ELSE (IF in_inner_ctx THEN raised - 1 ELSE raised)]

\* What a hook that returns at once reports.
NoDispatch(self, depth, result) ==
    [dispatched |-> FALSE, invoked |-> <<>>, answers |-> <<>>, result |-> Some(result),
     logs |-> self.logs, dispatch_depth |-> depth, depth |-> depth, on_revert |-> FALSE]

\* What a hook that went through call_inspectors! reports; result = None: the
\* hook goes on to the inner transaction.
Dispatch(d, all, result, logs, on_revert) ==
    [dispatched |-> TRUE, invoked |-> d.invoked,
     answers |-> [k \in 1 .. Len(d.invoked) |-> all[d.invoked[k]]],
     result |-> result, logs |-> logs, dispatch_depth |-> d.dispatch_depth,
     depth |-> d.depth, on_revert |-> on_revert]

\* InspectorStack::call without the check of lines 510-514.
InspectorStack_call_twice(self, depth, call, resp) ==
    LET lc  == LogCollector_call(self.logs, call)
        all == [i \in Inspectors |-> IF i = "log_collector" THEN lc.result ELSE resp[i]]
        d   == call_inspectors(CallOrder, self.inspectors,
                   [i \in Inspectors |-> IF all[i].status # "Continue" THEN Some(all[i]) ELSE None],
                   self.in_inner_context, depth)
        logs == IF "log_collector" \in Range(d.invoked) THEN lc.logs ELSE self.logs
    IN  IF d.result # None THEN Dispatch(d, all, d.result, logs, FALSE)
        ELSE IF ~call.is_static /\ ~self.in_inner_context /\ d.depth = 1
             THEN Dispatch(d, all, None, logs, FALSE)
        ELSE Dispatch(d, all, Some(Continue(call.gas_limit)), logs, FALSE)

\* InspectorStack::call with the inner transaction reserved to a stack that
\* has an inspector.
InspectorStack_call_no_isolation(self, depth, call, resp) ==
    IF self.in_inner_context /\ depth = 0
    THEN NoDispatch(self, depth, Continue(call.gas_limit))
    ELSE
    LET lc  == LogCollector_call(self.logs, call)
        all == [i \in Inspectors |-> IF i = "log_collector" THEN lc.result ELSE resp[i]]
        d   == call_inspectors(CallOrder, self.inspectors,
                   [i \in Inspectors |-> IF all[i].status # "Continue" THEN Some(all[i]) ELSE None],
                   self.in_inner_context, depth)
        logs == IF "log_collector" \in Range(d.invoked) THEN lc.logs ELSE self.logs
    IN  IF d.result # None THEN Dispatch(d, all, d.result, logs, FALSE)
        ELSE IF self.inspectors # {} /\ ~call.is_static /\ ~self.in_inner_context /\ d.depth = 1
             THEN Dispatch(d, all, None, logs, FALSE)
        ELSE Dispatch(d, all, Some(Continue(call.gas_limit)), logs, FALSE)

\* InspectorStack::call with line 538 not asking for the inner context.
InspectorStack_call_nesting(self, depth, call, resp) ==
    IF self.in_inner_context /\ depth = 0
    THEN NoDispatch(self, depth, Continue(call.gas_limit))
    ELSE
    LET lc  == LogCollector_call(self.logs, call)
        all == [i \in Inspectors |-> IF i = "log_collector" THEN lc.result ELSE resp[i]]
        d   == call_inspectors(CallOrder, self.inspectors,
                   [i \in Inspectors |-> IF all[i].status # "Continue" THEN Some(all[i]) ELSE None],
                   self.in_inner_context, depth)
        logs == IF "log_collector" \in Range(d.invoked) THEN lc.logs ELSE self.logs
    IN  IF d.result # None THEN Dispatch(d, all, d.result, logs, FALSE)
        ELSE IF ~call.is_static /\ d.depth = 1
             THEN Dispatch(d, all, None, logs, FALSE)
        ELSE Dispatch(d, all, Some(Continue(call.gas_limit)), logs, FALSE)

\* InspectorStack::call up to line 538 and its last line.
InspectorStack_call(self, depth, call, resp) ==
    IF self.in_inner_context /\ depth = 0
    THEN NoDispatch(self, depth, Continue(call.gas_limit))
    ELSE
    LET lc  == LogCollector_call(self.logs, call)
        all == [i \in Inspectors |-> IF i = "log_collector" THEN lc.result ELSE resp[i]]
        d   == call_inspectors(CallOrder, self.inspectors,
                   [i \in Inspectors |-> IF all[i].status # "Continue" THEN Some(all[i]) ELSE None],
                   self.in_inner_context, depth)
        logs == IF "log_collector" \in Range(d.invoked) THEN lc.logs ELSE self.logs
    IN  IF d.result # None THEN Dispatch(d, all, d.result, logs, FALSE)
        ELSE IF ~call.is_static /\ ~self.in_inner_context /\ d.depth = 1
             THEN Dispatch(d, all, None, logs, FALSE)
        ELSE Dispatch(d, all, Some(Continue(call.gas_limit)), logs, FALSE)

\* InspectorStack::create with line 653 tested before the early return of the macro.
InspectorStack_create_overriding(self, depth, call, resp) ==
    IF self.in_inner_context /\ depth = 0
    THEN NoDispatch(self, depth, CreateContinue(call.gas_limit))
    ELSE
    LET d == call_inspectors(CreateOrder, self.inspectors,
                 [i \in Inspectors |-> IF resp[i].status # "Continue" THEN Some(resp[i]) ELSE None],
                 self.in_inner_context, depth)
    IN  IF ~self.in_inner_context /\ d.depth = 1
        THEN Dispatch(d, resp, None, self.logs, FALSE)
        ELSE IF d.result # None THEN Dispatch(d, resp, d.result, self.logs, FALSE)
        ELSE Dispatch(d, resp, Some(CreateContinue(call.gas_limit)), self.logs, FALSE)

\* InspectorStack::create up to line 653 and its last line.
InspectorStack_create(self, depth, call, resp) ==
    IF self.in_inner_context /\ depth = 0
    THEN NoDispatch(self, depth, CreateContinue(call.gas_limit))
    ELSE
    LET d == call_inspectors(CreateOrder, self.inspectors,
                 [i \in Inspectors |-> IF resp[i].status # "Continue" THEN Some(resp[i]) ELSE None],
                 self.in_inner_context, depth)
    IN  IF d.result # None THEN Dispatch(d, resp, d.result, self.logs, FALSE)
        ELSE IF ~self.in_inner_context /\ d.depth = 1
             THEN Dispatch(d, resp, None, self.logs, FALSE)
        ELSE Dispatch(d, resp, Some(CreateContinue(call.gas_limit)), self.logs, FALSE)

\* do_call_end with any answer that differs from the incoming one taken as decisive.
do_call_end_any_difference(self, depth, incoming, resp) ==
    LET d == call_inspectors(CallOrder, self.inspectors,
                 [i \in Inspectors |-> IF resp[i] # incoming THEN Some(resp[i]) ELSE None],
                 self.in_inner_context, depth)
    IN  [d EXCEPT !.result = IF d.result # None THEN d.result ELSE Some(incoming)]

\* InspectorStack::do_call_end: incoming is (status, remaining_gas, retdata).
do_call_end(self, depth, incoming, resp) ==
    LET d == call_inspectors(CallOrder, self.inspectors,
                 [i \in Inspectors |->
                     IF resp[i].status # incoming.status
                        \/ (resp[i].status = "Revert" /\ resp[i].output # incoming.output)
                     THEN Some(resp[i]) ELSE None],
                 self.in_inner_context, depth)
    IN  [d EXCEPT !.result = IF d.result # None THEN d.result ELSE Some(incoming)]

InspectorStack_call_end(self, depth, incoming, resp) ==
    IF self.in_inner_context /\ depth = 0 THEN NoDispatch(self, depth, incoming)
    ELSE LET res == do_call_end(self, depth, incoming, resp)
         IN  Dispatch(res, resp, res.result, self.logs,
                      Unwrap(res.result).status \in return_revert /\ "cheatcodes" \in self.inspectors)

InspectorStack_create_end(self, depth, incoming, resp) ==
    IF self.in_inner_context /\ depth = 0 THEN NoDispatch(self, depth, incoming)
    ELSE LET d == call_inspectors(CreateOrder, self.inspectors,
                      [i \in Inspectors |->
                          IF resp[i].status # incoming.status THEN Some(resp[i]) ELSE None],
                      self.in_inner_context, depth)
         IN  Dispatch(d, resp, IF d.result # None THEN d.result ELSE Some(incoming),
                      self.logs, FALSE)

\* InspectorStack::log: no inspector's answer ends the forwarding.
InspectorStack_log(self, depth, address, topics, data) ==
    LET d == call_inspectors(LogOrder, self.inspectors, [i \in Inspectors |-> None],
                             self.in_inner_context, depth)
    IN  Dispatch(d, [i \in Inspectors |-> None], None,
                 IF "log_collector" \in Range(d.invoked)
                 THEN LogCollector_log(self.logs, address, topics, data) ELSE self.logs,
                 FALSE)

SelfdestructOrder == <<"debugger", "tracer", "log_collector", "cheatcodes", "printer", "chisel_state">>

\* InspectorStack::selfdestruct: the first arm of the macro, the closure is None.
InspectorStack_selfdestruct(self, depth, contract, target, value) ==
    LET e == call_inspectors_each(SelfdestructOrder, self.inspectors, [i \in Inspectors |-> None])
    IN  Dispatch([invoked |-> e.invoked, result |-> e.result, dispatch_depth |-> depth,
                  depth |-> depth],
                 [i \in Inspectors |-> None], e.result, self.logs, FALSE)

\* merge_states with the storage of a shared account replaced instead of extended.
merge_states_replacing(main_state, new_state) ==
    [addr \in DOMAIN main_state \cup DOMAIN new_state |->
        IF addr \in DOMAIN new_state THEN new_state[addr] ELSE main_state[addr]]

merge_states(main_state, new_state) ==
    [addr \in DOMAIN main_state \cup DOMAIN new_state |->
        IF addr \notin DOMAIN new_state THEN main_state[addr]
        ELSE IF addr \in DOMAIN main_state
             THEN [status |-> main_state[addr].status \cup new_state[addr].status,
                   info |-> new_state[addr].info,
                   storage |-> extend(main_state[addr].storage, new_state[addr].storage)]
        ELSE new_state[addr]]

\* foundry_evm_core::utils: the InstructionResult of a successful or halted transaction.
eval_to_instruction_result(reason) == reason
halt_to_instruction_result(reason) == reason

\* InspectorStack::call, lines 539-565: commit, load the caller, build the
\* environment and enter the inner context. load_ok: whether the backend could
\* load the caller.
InspectorStack_call_inner(data, call, load_ok) ==
    LET d == commit(data.db, data.state)
        st == load_account(data.state, d, call.caller)
    IN  [panic |-> IF load_ok THEN "none" ELSE "failed to load caller",
         db |-> d, state |-> IF load_ok THEN st ELSE data.state,
         env |-> [caller |-> call.caller, transact_to |-> <<"Call", call.contract>>,
                  data |-> call.input, value |-> call.value, gas_limit |-> call.gas_limit,
                  nonce |-> IF load_ok THEN Some(st[call.caller].info.nonce) ELSE None],
         in_inner_context |-> load_ok]

\* InspectorStack::create, lines 654-681, without the commit of line 655.
InspectorStack_create_inner_uncommitted(data, call, load_ok) ==
    LET d == data.db
        st == load_account(data.state, d, call.caller)
    IN  [panic |-> IF load_ok THEN "none" ELSE "failed to load caller",
         db |-> d, state |-> IF load_ok THEN st ELSE data.state,
         env |-> [caller |-> call.caller, transact_to |-> <<"Create", call.scheme>>,
                  data |-> call.init_code, value |-> call.value, gas_limit |-> call.gas_limit,
                  nonce |-> IF load_ok THEN Some(st[call.caller].info.nonce) ELSE None],
         in_inner_context |-> load_ok]

\* InspectorStack::create, lines 654-681.
InspectorStack_create_inner(data, call, load_ok) ==
    LET d == commit(data.db, data.state)
        st == load_account(data.state, d, call.caller)
    IN  [panic |-> IF load_ok THEN "none" ELSE "failed to load caller",
         db |-> d, state |-> IF load_ok THEN st ELSE data.state,
         env |-> [caller |-> call.caller, transact_to |-> <<"Create", call.scheme>>,
                  data |-> call.init_code, value |-> call.value, gas_limit |-> call.gas_limit,
                  nonce |-> IF load_ok THEN Some(st[call.caller].info.nonce) ELSE None],
         in_inner_context |-> load_ok]

\* InspectorStack::call, lines 569-588, with the Revert arm dropping the output.
InspectorStack_call_return_no_output(state, call, res) ==
    LET gas == Gas_new(call.gas_limit)
        r == res.result
    IN  [in_inner_context |-> FALSE,
         state |-> merge_states(state, res.state),
         result |->
            CASE r.kind = "Success" ->
                    [status |-> eval_to_instruction_result(r.reason),
                     gas |-> record_cost(set_refund(gas, r.gas_refunded), r.gas_used),
                     output |-> r.output.data]
              [] r.kind = "Halt" ->
                    [status |-> halt_to_instruction_result(r.reason),
                     gas |-> record_cost(gas, r.gas_used), output |-> EmptyBytes]
              [] r.kind = "Revert" ->
                    [status |-> "Revert", gas |-> record_cost(gas, r.gas_used),
                     output |-> EmptyBytes]]

\* InspectorStack::call, lines 569-588: leave the inner context, merge the
\* state of the inner transaction, translate its result.
InspectorStack_call_return(state, call, res) ==
    LET gas == Gas_new(call.gas_limit)
        r == res.result
    IN  [in_inner_context |-> FALSE,
         state |-> merge_states(state, res.state),
         result |->
            CASE r.kind = "Success" ->
                    [status |-> eval_to_instruction_result(r.reason),
                     gas |-> record_cost(set_refund(gas, r.gas_refunded), r.gas_used),
                     output |-> r.output.data]
              [] r.kind = "Halt" ->
                    [status |-> halt_to_instruction_result(r.reason),
                     gas |-> record_cost(gas, r.gas_used), output |-> EmptyBytes]
              [] r.kind = "Revert" ->
                    [status |-> "Revert", gas |-> record_cost(gas, r.gas_used),
                     output |-> r.output]]

\* InspectorStack::create, lines 685-708.
InspectorStack_create_return(state, call, res) ==
    LET gas == Gas_new(call.gas_limit)
        r == res.result
    IN  [in_inner_context |-> FALSE,
         state |-> merge_states(state, res.state),
         result |->
            CASE r.kind = "Success" ->
                    [status |-> eval_to_instruction_result(r.reason), address |-> r.output.address,
                     gas |-> record_cost(set_refund(gas, r.gas_refunded), r.gas_used),
                     output |-> r.output.data]
              [] r.kind = "Halt" ->
                    [status |-> halt_to_instruction_result(r.reason), address |-> None,
                     gas |-> record_cost(gas, r.gas_used), output |-> EmptyBytes]
              [] r.kind = "Revert" ->
                    [status |-> "Revert", address |-> None,
                     gas |-> record_cost(gas, r.gas_used), output |-> r.output]]

\* InspectorStack::collect: the logs of InspectorData.
InspectorStack_collect(self) ==
    [logs |-> IF "log_collector" \in self.inspectors THEN self.logs ELSE <<>>]

\* The ExecutionResult of a transaction whose top-level frame ended with
\* (status, gas, output): Success carries Output::Call or Output::Create.
ExecutionResult(kind, status, output, address) ==
    CASE status \in {"Stop", "Return", "SelfDestruct"} ->
            [kind |-> "Success", reason |-> status, gas_used |-> 1, gas_refunded |-> 0,
             output |-> [kind |-> kind, data |-> output, address |-> address]]
      [] status = "Revert" -> [kind |-> "Revert", gas_used |-> 1, output |-> output]
      [] OTHER -> [kind |-> "Halt", reason |-> status, gas_used |-> 1]

\* ---- the stack driven by revm: one action per callback
SelfNow == [inspectors |-> inspectors, in_inner_context |-> in_inner_context, logs |-> log_collector]

NoHook == [name |-> "none"]

HookRecord(name, depth, call, incoming, r) ==
    [name |-> name, in_inner |-> in_inner_context, depth |-> depth, inputs |-> call,
     incoming |-> incoming, dispatched |-> r.dispatched, invoked |-> r.invoked,
     answers |-> r.answers, result |-> r.result, logs_before |-> log_collector,
     db_before |-> data_db, txs_before |-> inner_txs,
     logs_after |-> r.logs, dispatch_depth |-> r.dispatch_depth, depth_after |-> r.depth,
     on_revert |-> r.on_revert]

\* The logs in the journal of the inner EVM (revm's JournaledState::logs).
JournalLogs == IF intercepted = None THEN <<>> ELSE Unwrap(intercepted).logs

\* A frame with its checkpoint: the state and the length of the journal's logs.
Frame(kind, call, contract, static, checkpoint) ==
    [kind |-> kind, inputs |-> call, contract |-> contract, static |-> static,
     checkpoint |-> checkpoint, log_i |-> Len(JournalLogs)]

\* lines 573-588 with the logs of a successful inner transaction appended to
\* the collected ones.
InspectorStack_call_return_logs_appended(logs, res) ==
    IF res.result.kind = "Success" THEN logs \o res.logs ELSE logs

\* InspectorStack::call and create, lines 573-588 and 689-708: `logs: _`, the
\* logs of the inner execution result are dropped.
InspectorStack_call_return_logs(logs, res) == logs

\* The EVM that is running: the one of the inner transaction or the outer one.
CurInner == stack_pc \in {"inner_start", "inner"}
CurFrames == IF CurInner THEN inner_frames ELSE frames
CurState == IF CurInner THEN inner_state ELSE journaled_state
Top == CurFrames[Len(CurFrames)]

SetCur(newframes, newstate) ==
    /\ frames' = IF CurInner THEN frames ELSE newframes
    /\ inner_frames' = IF CurInner THEN newframes ELSE inner_frames
    /\ journaled_state' = IF CurInner THEN journaled_state ELSE newstate
    /\ inner_state' = IF CurInner THEN newstate ELSE inner_state

Started(pc) == CASE pc = "start" -> "outer" [] pc = "inner_start" -> "inner" [] OTHER -> pc

\* The running contracts log, store, call and create MaxOps times in all.
Budget == ops < MaxOps
Spent == IF stack_pc \in {"start", "inner_start"} THEN ops ELSE ops + 1

StackInit ==
    /\ inspectors \in InspectorSets
    /\ in_inner_context = FALSE
    /\ log_collector = <<>>
    /\ data_db = EmptyDb
    /\ journaled_state = transact_begin(EmptyDb, EOA)
    /\ frames = <<>>
    /\ inner_state = EmptyMap
    /\ inner_frames = <<>>
    /\ stack_pc = "start"
    /\ end_due = None
    /\ intercepted = None
    /\ inner_result = None
    /\ returned = None
    /\ hook = NoHook
    /\ call_counts = [i \in Inspectors |-> 0]
    /\ log_events = <<>>
    /\ inner_txs = 0
    /\ ops = 0
    /\ collected = None

\* The calls revm can report next.
NextCalls ==
    CASE stack_pc = "start" -> {TopCall}
      [] stack_pc = "inner_start" ->
            IF Unwrap(intercepted).kind = "call" THEN {Unwrap(intercepted).inputs} ELSE {}
      [] OTHER ->
            IF CurFrames = <<>> \/ Top.contract # TEST_CONTRACT THEN {}
            ELSE {c \in CallsFrom(Top.contract) : Budget /\ (Top.static => c.is_static)}

NextCreates ==
    CASE stack_pc = "start" -> {}
      [] stack_pc = "inner_start" ->
            IF Unwrap(intercepted).kind = "create" THEN {Unwrap(intercepted).inputs} ELSE {}
      [] OTHER ->
            IF CurFrames = <<>> \/ Top.contract # TEST_CONTRACT \/ Top.static THEN {}
            ELSE {c \in {CreateInputs(Top.contract)} : Budget}

\* The hook returned a result: revm runs the callee (Continue) or goes straight
\* to the end hook with the result.
Decided(kind, call, contract, static, res, r) ==
    /\ call_counts' = IF stack_pc = "inner_start"
                      THEN [i \in Inspectors |-> call_counts[i] + IF i \in Range(r.invoked) THEN 1 ELSE 0]
                      ELSE call_counts
    /\ stack_pc' = Started(stack_pc)
    /\ IF res.status = "Continue"
       THEN /\ end_due' = None
            /\ SetCur(Append(CurFrames, Frame(kind, call, contract, static, CurState)),
                      touch(load_account(CurState, data_db, contract), contract))
       ELSE /\ end_due' = Some([kind |-> kind, inputs |-> call, result |-> res])
            /\ SetCur(CurFrames, CurState)
    /\ UNCHANGED <<inspectors, in_inner_context, data_db, intercepted, inner_result, returned,
                   inner_txs, collected>>

\* The hook goes on to the inner transaction (b: what lines 539-565 produced).
Intercepted(kind, call, b, r) ==
    /\ data_db' = b.db
    /\ journaled_state' = b.state
    /\ in_inner_context' = b.in_inner_context
    /\ IF b.panic = "none"
       THEN /\ stack_pc' = "inner_start"
            /\ intercepted' = Some([kind |-> kind, inputs |-> call, env |-> b.env,
                                    state_before |-> journaled_state, db_before |-> data_db,
                                    txs_before |-> inner_txs, logs |-> <<>>,
                                    wrote |-> FALSE])
            /\ inner_state' = transact_begin(b.db, b.env.caller)
            /\ inner_txs' = inner_txs + 1
            /\ call_counts' = [i \in Inspectors |-> IF i \in Range(r.invoked) THEN 1 ELSE 0]
       ELSE /\ stack_pc' = "panic"
            /\ UNCHANGED <<intercepted, inner_state, inner_txs, call_counts>>
    /\ UNCHANGED <<inspectors, frames, inner_frames, end_due, inner_result, returned, collected>>

StackCall ==
    /\ stack_pc \in {"start", "outer", "inner_start", "inner"}
    /\ end_due = None
    /\ Len(CurFrames) < MaxFrames
    /\ \E call \in NextCalls :
       \E resp \in CallAnswers(inspectors, CallOrder, call.gas_limit) :
          \E r \in {InspectorStack_call(SelfNow, Len(CurFrames), call, resp)} :
              /\ hook' = HookRecord("call", Len(CurFrames), call, None, r)
              /\ log_collector' = r.logs
              /\ ops' = Spent
              /\ log_events' =
                    IF call.contract = HARDHAT_CONSOLE_ADDRESS
                    THEN Append(log_events, [hook |-> "call", item |-> call.input,
                                             reached |-> "log_collector" \in Range(r.invoked)])
                    ELSE log_events
              /\ IF r.result # None
                 THEN Decided("call", call, call.contract,
                              call.is_static \/ (CurFrames # <<>> /\ Top.static),
                              Unwrap(r.result), r)
                 ELSE \E load_ok \in BOOLEAN :
                        Intercepted("call", call,
                            InspectorStack_call_inner([db |-> data_db, state |-> journaled_state],
                                                      call, load_ok), r)
    /\ UNCHANGED NotStackVars

StackCreate ==
    /\ stack_pc \in {"outer", "inner_start", "inner"}
    /\ end_due = None
    /\ Len(CurFrames) < MaxFrames
    /\ \E call \in NextCreates :
       \E resp \in CreateAnswers(inspectors, CreateOrder, call.gas_limit) :
          \E r \in {InspectorStack_create(SelfNow, Len(CurFrames), call, resp)} :
              /\ hook' = HookRecord("create", Len(CurFrames), call, None, r)
              /\ log_collector' = r.logs
              /\ ops' = Spent
              /\ log_events' = log_events
              /\ IF r.result # None
                 THEN Decided("create", call, NEW_CONTRACT, FALSE, Unwrap(r.result), r)
                 ELSE \E load_ok \in BOOLEAN :
                        Intercepted("create", call,
                            InspectorStack_create_inner([db |-> data_db, state |-> journaled_state],
                                                        call, load_ok), r)
    /\ UNCHANGED NotStackVars

\* transact() of the inner transaction returns an error: the expect() panics.
TransactErr ==
    /\ stack_pc = "inner_start"
    /\ stack_pc' = "panic"
    /\ UNCHANGED <<inspectors, in_inner_context, log_collector, data_db, journaled_state,
                   frames, inner_state, inner_frames, end_due, intercepted, inner_result,
                   returned, hook, call_counts, log_events, inner_txs, ops, collected>>
    /\ UNCHANGED NotStackVars

\* What the frame that ends reports, or the result the hook gave for the call.
FrameResult(kind, status, call) ==
    LET res == [status |-> status, gas |-> record_cost(Gas_new(call.gas_limit), 1),
                output |-> CASE status = "Return" -> "ret" [] status = "Revert" -> "reason"
                             [] OTHER -> EmptyBytes]
    IN  IF kind = "call" THEN res
        ELSE [status |-> res.status,
              address |-> IF status = "Return" THEN Some(NEW_CONTRACT) ELSE None,
              gas |-> res.gas, output |-> res.output]

Endings(kind) ==
    IF end_due # None
    THEN IF Unwrap(end_due).kind = kind
         THEN {[inputs |-> Unwrap(end_due).inputs, incoming |-> Unwrap(end_due).result,
                frames |-> CurFrames, state |-> CurState, logs |-> JournalLogs]}
         ELSE {}
    ELSE IF CurFrames = <<>> \/ Top.kind # kind THEN {}
    ELSE {[inputs |-> Top.inputs, incoming |-> FrameResult(kind, status, Top.inputs),
           frames |-> SubSeq(CurFrames, 1, Len(CurFrames) - 1),
           state |-> IF status = "Return" THEN CurState ELSE Top.checkpoint,
           logs |-> IF status = "Return" THEN JournalLogs
                    ELSE SubSeq(JournalLogs, 1, Top.log_i)] :
          status \in FrameExits(CurInner /\ Len(CurFrames) = 1)}

\* After the end hook: a transaction whose top-level frame has ended is over.
Ended(kind, newframes, newstate, newlogs, result) ==
    /\ SetCur(newframes, newstate)
    /\ end_due' = None
    /\ intercepted' = IF CurInner THEN Some([Unwrap(intercepted) EXCEPT !.logs = newlogs])
                      ELSE intercepted
    /\ IF newframes # <<>> THEN UNCHANGED <<stack_pc, inner_result>>
       ELSE IF CurInner
       THEN /\ stack_pc' = "inner_done"
            /\ inner_result' =
                  Some([result |-> ExecutionResult(kind, result.status, result.output,
                                       IF kind = "create" THEN result.address ELSE None),
                        state |-> newstate,
                        logs |-> IF result.status \in {"Stop", "Return", "SelfDestruct"}
                                 THEN newlogs ELSE <<>>])
       ELSE /\ stack_pc' = "done"
            /\ UNCHANGED inner_result
    /\ UNCHANGED <<inspectors, in_inner_context, data_db, returned, call_counts,
                   log_events, inner_txs, ops, collected>>

StackCallEnd ==
    /\ stack_pc \in {"outer", "inner"}
    /\ \E e \in Endings("call") :
       \E resp \in EndAnswers(inspectors, CallOrder, e.incoming) :
          \E r \in {InspectorStack_call_end(SelfNow, Len(e.frames), e.incoming, resp)} :
              /\ hook' = HookRecord("call_end", Len(e.frames), e.inputs, Some(e.incoming), r)
              /\ log_collector' = r.logs
              /\ Ended("call", e.frames, e.state, e.logs, Unwrap(r.result))
    /\ UNCHANGED NotStackVars

StackCreateEnd ==
    /\ stack_pc \in {"outer", "inner"}
    /\ \E e \in Endings("create") :
       \E resp \in EndAnswers(inspectors, CreateOrder, e.incoming) :
          \E r \in {InspectorStack_create_end(SelfNow, Len(e.frames), e.incoming, resp)} :
              /\ hook' = HookRecord("create_end", Len(e.frames), e.inputs, Some(e.incoming), r)
              /\ log_collector' = r.logs
              /\ Ended("create", e.frames, e.state, e.logs, Unwrap(r.result))
    /\ UNCHANGED NotStackVars

\* The inner transact() returned Ok(res): the rest of the call or create hook.
InnerTransactOk ==
    /\ stack_pc = "inner_done"
    /\ LET i == Unwrap(intercepted)
           res == Unwrap(inner_result)
           r == IF i.kind = "call"
                THEN InspectorStack_call_return(journaled_state, i.inputs, res)
                ELSE InspectorStack_create_return(journaled_state, i.inputs, res)
       IN  /\ in_inner_context' = r.in_inner_context
           /\ journaled_state' = r.state
           /\ end_due' = Some([kind |-> i.kind, inputs |-> i.inputs, result |-> r.result])
           /\ returned' = Some([kind |-> i.kind, inputs |-> i.inputs, res |-> res,
                                result |-> r.result, state_before |-> i.state_before,
                                main_state |-> journaled_state,
                                txs_before |-> i.txs_before, txs_after |-> inner_txs,
                                logs_before |-> log_collector,
                                logs_after |-> InspectorStack_call_return_logs(log_collector, res),
                                state_after |-> r.state, wrote |-> i.wrote])
           /\ log_collector' = InspectorStack_call_return_logs(log_collector, res)
    /\ stack_pc' = "outer"
    /\ intercepted' = None
    /\ inner_result' = None
    /\ UNCHANGED <<inspectors, data_db, frames, inner_state, inner_frames,
                   hook, call_counts, log_events, inner_txs, ops, collected>>
    /\ UNCHANGED NotStackVars

\* A LOG of the running contract.
StackLog ==
    /\ stack_pc \in {"outer", "inner"}
    /\ end_due = None
    /\ CurFrames # <<>>
    /\ ~Top.static /\ Top.contract = TEST_CONTRACT
    /\ Budget
    /\ ops' = ops + 1
    /\ \E l \in LogsOf(Top.contract) :
          \E r \in {InspectorStack_log(SelfNow, Len(CurFrames), l.address, l.topics, l.data)} :
              /\ hook' = HookRecord("log", Len(CurFrames), l, None, r)
              /\ log_collector' = r.logs
              /\ log_events' = Append(log_events, [hook |-> "log", item |-> l,
                                          reached |-> "log_collector" \in Range(r.invoked)])
              /\ intercepted' = IF CurInner
                                THEN Some([Unwrap(intercepted) EXCEPT !.logs = Append(@, l)])
                                ELSE intercepted
    /\ UNCHANGED <<inspectors, in_inner_context, data_db, journaled_state, frames, inner_state,
                   inner_frames, stack_pc, end_due, inner_result, returned,
                   call_counts, inner_txs, collected>>
    /\ UNCHANGED NotStackVars

\* A SELFDESTRUCT of the running test contract, as the stack sees it.
StackSelfdestruct ==
    /\ stack_pc \in {"outer", "inner"}
    /\ end_due = None
    /\ CurFrames # <<>>
    /\ ~Top.static /\ Top.contract = TEST_CONTRACT
    /\ Budget
    /\ ops' = ops + 1
    /\ \E r \in {InspectorStack_selfdestruct(SelfNow, Len(CurFrames), Top.contract, EOA, 0)} :
          /\ hook' = HookRecord("selfdestruct", Len(CurFrames),
                                [contract |-> Top.contract, target |-> EOA, value |-> 0], None, r)
          /\ log_collector' = r.logs
    /\ UNCHANGED <<inspectors, in_inner_context, data_db, journaled_state, frames, inner_state,
                   inner_frames, stack_pc, end_due, intercepted, inner_result, returned,
                   call_counts, log_events, inner_txs, collected>>
    /\ UNCHANGED NotStackVars

\* An SSTORE of the running test contract; no hook of the stack sees it.
Sstore ==
    /\ stack_pc \in {"outer", "inner"}
    /\ end_due = None
    /\ CurFrames # <<>>
    /\ ~Top.static /\ Top.contract = TEST_CONTRACT
    /\ Budget
    /\ ops' = ops + 1
    /\ \E slot \in Slots, v \in Values :
          SetCur(CurFrames, sstore(CurState, data_db, Top.contract, slot, v))
    /\ intercepted' = IF CurInner THEN Some([Unwrap(intercepted) EXCEPT !.wrote = TRUE])
                      ELSE intercepted
    /\ UNCHANGED <<inspectors, in_inner_context, log_collector, data_db, stack_pc, end_due,
                   inner_result, returned, hook, call_counts, log_events, inner_txs, collected>>
    /\ UNCHANGED NotStackVars

Collect ==
    /\ stack_pc = "done"
    /\ collected' = Some(InspectorStack_collect(SelfNow))
    /\ stack_pc' = "collected"
    /\ UNCHANGED <<inspectors, in_inner_context, log_collector, data_db, journaled_state,
                   frames, inner_state, inner_frames, end_due, intercepted, inner_result,
                   returned, hook, call_counts, log_events, inner_txs, ops>>
    /\ UNCHANGED NotStackVars

StackNext ==
    \/ StackCall \/ StackCallEnd \/ StackCreate \/ StackCreateEnd \/ TransactErr
    \/ InnerTransactOk \/ StackLog \/ StackSelfdestruct \/ Sstore \/ Collect

\* ---- the hooks that report an event to the inspectors
InitializeOrder == <<"debugger", "coverage", "tracer", "log_collector", "cheatcodes", "printer">>
StepOrder == <<"fuzzer", "debugger", "tracer", "coverage", "log_collector", "cheatcodes", "printer">>

\* The InstructionResults an inspector's hook leaves in the interpreter.
InstructionResults == {"Continue", "Revert"}

\* The closure of initialize_interp and step with a None for every inspector.
exit_never(res, after) == [i \in Inspectors |-> None]

\* The closure of initialize_interp and step: Some(()) once the inspector's
\* hook has changed interpreter.instruction_result ("Allow inspectors to exit
\* early"). after[i]: the instruction result when inspector i's hook is done.
exit_early(res, after) == [i \in Inspectors |-> IF after[i] # res THEN Some("exit") ELSE None]

InspectorStack_initialize_interp(self, depth, res, after) ==
    LET d == call_inspectors(InitializeOrder, self.inspectors, exit_early(res, after),
                             self.in_inner_context, depth)
    IN  Dispatch(d, after, d.result, self.logs, FALSE)

InspectorStack_step(self, depth, res, after) ==
    LET d == call_inspectors(StepOrder, self.inspectors, exit_early(res, after),
                             self.in_inner_context, depth)
    IN  Dispatch(d, after, d.result, self.logs, FALSE)

\* The events of a running frame, reported to a stack in any configuration.
EventsInit ==
    /\ inspectors \in InspectorSets
    /\ in_inner_context \in BOOLEAN
    /\ log_collector = <<>>
    /\ data_db = EmptyDb
    /\ journaled_state = transact_begin(EmptyDb, EOA)
    /\ frames = <<>>
    /\ inner_state = EmptyMap
    /\ inner_frames = <<>>
    /\ stack_pc = "start"
    /\ end_due = None
    /\ intercepted = None
    /\ inner_result = None
    /\ returned = None
    /\ hook = NoHook
    /\ call_counts = [i \in Inspectors |-> 0]
    /\ log_events = <<>>
    /\ inner_txs = 0
    /\ ops = 0
    /\ collected = None

\* An event changes the last hook and the collected logs only.
Event(name, depth, input, r) ==
    /\ hook' = HookRecord(name, depth, input, None, r)
    /\ log_collector' = r.logs
    /\ UNCHANGED <<inspectors, in_inner_context, data_db, journaled_state, frames, inner_state,
                   inner_frames, stack_pc, end_due, intercepted, inner_result, returned,
                   call_counts, log_events, inner_txs, ops, collected>>
    /\ UNCHANGED NotStackVars

\* The journal depth of the frame that runs: the top-level frame of an inner
\* transaction is at depth 0, the frame of the test contract at depth 1.
EventDepth == IF in_inner_context THEN 0 ELSE 1

EventInitializeInterp ==
    /\ stack_pc = "start"
    /\ \E res \in InstructionResults, after \in [Inspectors -> InstructionResults] :
          Event("initialize_interp", EventDepth, res,
                InspectorStack_initialize_interp(SelfNow, EventDepth, res, after))

EventStep ==
    /\ stack_pc = "start"
    /\ \E res \in InstructionResults, after \in [Inspectors -> InstructionResults] :
          Event("step", EventDepth, res, InspectorStack_step(SelfNow, EventDepth, res, after))

EventLog ==
    /\ Len(log_collector) < MaxOps
    /\ \E l \in LogsOf(TEST_CONTRACT) :
          Event("log", EventDepth, l,
                InspectorStack_log(SelfNow, EventDepth, l.address, l.topics, l.data))

EventSelfdestruct ==
    /\ stack_pc = "start"
    /\ Event("selfdestruct", EventDepth, [contract |-> TEST_CONTRACT, target |-> EOA, value |-> 0],
             InspectorStack_selfdestruct(SelfNow, EventDepth, TEST_CONTRACT, EOA, 0))

EventsNext == EventInitializeInterp \/ EventStep \/ EventLog \/ EventSelfdestruct

\* ------------------------------------------------------------------------
\* The tracing cheatcodes (crates/cheatcodes/src/utils.rs)
\* ------------------------------------------------------------------------

\* IgnoredTraces::default()
IgnoredTraces_default == [last_pause_call |-> None, ignored |-> EmptyMap]

\* nodes().last()
nodes_last(nodes) == IF nodes = <<>> THEN None ELSE Some(nodes[Len(nodes)])

\* pauseTracingCall::apply_full: the state after it and Ok or the panic.
pauseTracingCall_apply_full(state, the_tracer) ==
    IF the_tracer = None THEN [state |-> state, result |-> "ok"]
    ELSE IF state.last_pause_call # None THEN [state |-> state, result |-> "ok"]
    ELSE LET cur_node == nodes_last(Unwrap(the_tracer))
         IN  IF cur_node = None THEN [state |-> state, result |-> "no trace nodes"]
             ELSE [state |-> [state EXCEPT !.last_pause_call =
                                 Some(<<Unwrap(cur_node).idx, Unwrap(cur_node).ordering>>)],
                   result |-> "ok"]

\* resumeTracingCall::apply_full: last_pause_call is taken before the node is looked up.
resumeTracingCall_apply_full(state, the_tracer) ==
    IF the_tracer = None THEN [state |-> state, result |-> "ok"]
    ELSE IF state.last_pause_call = None THEN [state |-> state, result |-> "ok"]
    ELSE LET start == Unwrap(state.last_pause_call)
             taken == [state EXCEPT !.last_pause_call = None]
             node == nodes_last(Unwrap(the_tracer))
         IN  IF node = None THEN [state |-> taken, result |-> "no trace nodes"]
             ELSE [state |-> [taken EXCEPT !.ignored =
                                 Put(@, start, <<Unwrap(node).idx, Unwrap(node).ordering>>)],
                   result |-> "ok"]

\* The executor has no tracer, or one whose arena holds no node or a root node.
TracingInit ==
    /\ tracer \in {None, Some(<<>>), Some(<<[idx |-> 0, ordering |-> 0]>>)}
    /\ ignored_traces = IgnoredTraces_default
    /\ tracing_op = [op |-> "none", result |-> "none", before |-> IgnoredTraces_default]

\* A panic ends the process.
Running == tracing_op.result \in {"none", "ok"}

TracingCheat(op, res) ==
    /\ ignored_traces' = res.state
    /\ tracing_op' = [op |-> op, result |-> res.result, before |-> ignored_traces]
    /\ UNCHANGED <<tracer, NotTracingVars>>

PauseTracing ==
    /\ Running
    /\ TracingCheat("pauseTracing", pauseTracingCall_apply_full(ignored_traces, tracer))

ResumeTracing ==
    /\ Running
    /\ TracingCheat("resumeTracing", resumeTracingCall_apply_full(ignored_traces, tracer))

\* The tracer records a call: a node is pushed to the arena.
TraceNode ==
    /\ Running
    /\ tracer # None
    /\ Len(Unwrap(tracer)) < MaxNodes
    /\ tracer' = Some(Append(Unwrap(tracer), [idx |-> Len(Unwrap(tracer)), ordering |-> 0]))
    /\ UNCHANGED <<ignored_traces, tracing_op, NotTracingVars>>

\* The tracer records a log or a step in the last node: its ordering grows.
TraceItem ==
    /\ Running
    /\ tracer # None
    /\ Unwrap(tracer) # <<>>
    /\ Unwrap(tracer)[Len(Unwrap(tracer))].ordering < MaxOrdering
    /\ tracer' = Some([Unwrap(tracer) EXCEPT ![Len(Unwrap(tracer))].ordering = @ + 1])
    /\ UNCHANGED <<ignored_traces, tracing_op, NotTracingVars>>

TracingNext == PauseTracing \/ ResumeTracing \/ TraceNode \/ TraceItem

\* ------------------------------------------------------------------------
\* Specifications
\* ------------------------------------------------------------------------

\* A part that is not running stays in one fixed initial state.
TreeIdle ==
    /\ strategy = UintStrategy_new(WordBits, <<>>, None, None, FALSE)
    /\ tree = None /\ tree_pc = "none" /\ ret = None /\ trail = <<>>
    /\ threshold = 0 /\ last_failing = None /\ shrink_pc = "none"

PrankIdle ==
    /\ ccx = [caller |-> "0xAAAA", depth |-> 1]
    /\ env_tx_caller = "0xAAAA"
    /\ cheats = [prank |-> None, broadcast |-> None]
    /\ in_call = FALSE /\ observed = None /\ cheat_op = "none" /\ cheat_result = "none"
    /\ cheats_before = cheats /\ last_arm = None /\ calls_since_arm = 0

InvariantIdle ==
    /\ setup = [invariant_depth |-> 1, contracts |-> KnownContracts,
                target_contracts |-> <<>>, target_senders |-> <<>>]
    /\ inv_pc = "idle" /\ runs = 0 /\ inputs = <<>> /\ pos = 1 /\ db = {} /\ clean_db = {}
    /\ invariant_doesnt_hold = [n \in InvariantNames |-> None]
    /\ fuzz_cases = <<>>
    /\ first_failure = [n \in InvariantNames |-> None]
    /\ executed = <<>> /\ outcome = None

StackIdle ==
    /\ inspectors = {}
    /\ in_inner_context = FALSE /\ log_collector = <<>> /\ data_db = EmptyDb
    /\ journaled_state = transact_begin(EmptyDb, EOA)
    /\ frames = <<>> /\ inner_state = EmptyMap /\ inner_frames = <<>> /\ stack_pc = "start"
    /\ end_due = None /\ intercepted = None /\ inner_result = None /\ returned = None
    /\ hook = NoHook /\ call_counts = [i \in Inspectors |-> 0] /\ log_events = <<>>
    /\ inner_txs = 0 /\ ops = 0 /\ collected = None

TracingIdle ==
    /\ tracer = None
    /\ ignored_traces = IgnoredTraces_default
    /\ tracing_op = [op |-> "none", result |-> "none", before |-> IgnoredTraces_default]

InitTree == TreeInit /\ PrankIdle /\ InvariantIdle /\ StackIdle /\ TracingIdle
SpecTree == InitTree /\ [][TreeNext]_vars

\* The tree called again and again: simplify() and complicate() are total, so
\* a caller can always make another call.
SpecTreeLive == SpecTree /\ WF_vars(Simplify \/ Complicate)

InitShrink == ShrinkInit /\ PrankIdle /\ InvariantIdle /\ StackIdle /\ TracingIdle
SpecShrink == InitShrink /\ [][ShrinkNext]_vars

InitPrank == PrankInit /\ TreeIdle /\ InvariantIdle /\ StackIdle /\ TracingIdle
SpecPrank == InitPrank /\ [][PrankNext]_vars

InitInvariant == InvariantInit /\ TreeIdle /\ PrankIdle /\ StackIdle /\ TracingIdle
SpecInvariant == InitInvariant /\ [][InvariantNext]_vars

InitStack == StackInit /\ TreeIdle /\ PrankIdle /\ InvariantIdle /\ TracingIdle
SpecStack == InitStack /\ [][StackNext]_vars

InitEvents == EventsInit /\ TreeIdle /\ PrankIdle /\ InvariantIdle /\ TracingIdle

InitTracing == TracingInit /\ TreeIdle /\ PrankIdle /\ InvariantIdle /\ StackIdle
SpecTracing == InitTracing /\ [][TracingNext]_vars
SpecEvents == InitEvents /\ [][EventsNext]_vars

\* ------------------------------------------------------------------------
\* Claims about the value tree
\* ------------------------------------------------------------------------

InBounds(t) == t.min_bound <= current(t) /\ current(t) <= t.max_bound

\* C8: for a tree created by UintValueTree::new, lo <= curr <= hi holds in
\* every state reachable by any sequence of simplify() and complicate() calls.
C8_LoCurrHi ==
    tree # None => LET t == Unwrap(tree) IN t.lo <= t.curr /\ t.curr <= t.hi

\* C9: for a strategy with min_bound <= max_bound, every tree new_tree
\* returns has current() inside [min_bound, max_bound], also after any
\* sequence of simplify()/complicate() calls.
C9_CurrentInBounds ==
    (tree_pc = "new_tree" /\ strategy.min_bound <= strategy.max_bound)
        => InBounds(Unwrap(tree))

\* C9's case: a tree of new_tree whose curr has left the bounds after a call
\* that moved it, so that only the clamp of current() keeps the value inside.
C9_Witness ==
    /\ tree_pc = "new_tree"
    /\ strategy.min_bound <= strategy.max_bound
    /\ ret = Some(TRUE)
    /\ Unwrap(tree).curr > strategy.max_bound

\* C10: from a tree state with lo <= hi, simplify() followed by complicate()
\* leaves curr inside the [lo, hi] the tree had before the two calls, and
\* current() inside [min_bound, max_bound] (current() asserts
\* min_bound <= max_bound).
C10_SimplifyThenComplicate ==
    (/\ Len(trail) = 2
     /\ trail[1].op = "simplify"
     /\ trail[2].op = "complicate"
     /\ trail[1].before.lo <= trail[1].before.hi)
        => LET b == trail[1].before
               t == Unwrap(tree)
           IN  /\ b.lo <= t.curr /\ t.curr <= b.hi
               /\ t.min_bound <= t.max_bound => InBounds(t)

\* C10's case: both calls were made from a state with lo <= hi and both moved
\* the tree.
C10_Witness ==
    /\ Len(trail) = 2
    /\ trail[1].op = "simplify"
    /\ trail[2].op = "complicate"
    /\ trail[1].before.lo <= trail[1].before.hi
    /\ simplify(trail[1].before).ret
    /\ ret = Some(TRUE)
    /\ Unwrap(tree).min_bound <= Unwrap(tree).max_bound

\* C11: a tree constructed with fixed = true returns the same current()
\* forever, and simplify() and complicate() both return false and change none
\* of lo, curr, hi: every call leaves the tree as it found it.
C11_FixedTreeNeverMoves ==
    (tree # None /\ Unwrap(tree).fixed /\ trail # <<>>)
        => /\ ret = Some(FALSE)
           /\ \A i \in 1 .. Len(trail) :
                 /\ trail[i].before = Unwrap(tree)
                 /\ trail[i].before.min_bound <= trail[i].before.max_bound
                      => current(trail[i].before) = current(Unwrap(tree))

\* C11's case: a fixed tree with lo < hi, where only the check of `fixed`
\* keeps the calls from moving it, after a simplify() and a complicate().
C11_Witness ==
    /\ tree # None
    /\ Unwrap(tree).fixed
    /\ Unwrap(tree).lo < Unwrap(tree).hi
    /\ Len(trail) = 2
    /\ {trail[1].op, trail[2].op} = {"simplify", "complicate"}

\* C12: over consecutive simplify() calls hi never increases from one call to
\* the next: a simplify() call leaves hi at most what it was.
C12_SimplifyLowersHi ==
    \A i \in 1 .. Len(trail) :
        trail[i].op = "simplify"
            => LET after == IF i < Len(trail) THEN trail[i + 1].before ELSE Unwrap(tree)
               IN  after.hi <= trail[i].before.hi

\* C12's case: two simplify() calls in a row, each of which lowered hi.
C12_Witness ==
    /\ Len(trail) = 2
    /\ trail[1].op = "simplify"
    /\ trail[2].op = "simplify"
    /\ trail[2].before.hi < trail[1].before.hi
    /\ Unwrap(tree).hi < trail[2].before.hi

\* C13: value generation never wraps 256-bit arithmetic: for every bound pair
\* min <= max, the full range of the widest type included, new_tree computes
\* max - min + 1 and min + random % range without wrap-around and without a
\* zero modulus, so that it returns a tree.
C13_GenerationNeverWraps ==
    (strategy.min_bound <= strategy.max_bound) => tree_pc # "panic"

\* C14: simplify(), complicate() and the midpoint computation never overflow
\* or underflow in a state reachable from a new tree; complicate() on a tree
\* whose curr and hi are U256::MAX completes and leaves lo at 0.
C14_TreeNeverWraps ==
    trail # <<>>
        => LET last == trail[Len(trail)]
           IN  /\ last.op = "simplify" => ~simplify_wraps(last.before)
               /\ last.op = "complicate" => ~complicate_wraps(last.before)
               /\ (/\ last.op = "complicate"
                   /\ ~last.before.fixed
                   /\ last.before.lo = 0
                   /\ last.before.curr = U256_MAX
                   /\ last.before.hi = U256_MAX) => Unwrap(tree).lo = 0

\* ------------------------------------------------------------------------
\* Claims about pranks
\* ------------------------------------------------------------------------

\* C2: a single-call prank armed with new_caller = B from caller A affects
\* exactly one call: the first call made while it is armed observes caller B
\* and flips used to true, all other fields unchanged; the prank is then
\* inactive again; every later call observes the real caller A.
C2_SingleCallPrank ==
    (last_arm # None /\ Unwrap(last_arm).single_call)
        => LET p == Unwrap(last_arm)
           IN  /\ (calls_since_arm = 0) => cheats.prank = Some(p)
               /\ (calls_since_arm = 1 /\ in_call)
                    => /\ Unwrap(observed).caller = p.new_caller
                       /\ cheats.prank = Some([p EXCEPT !.used = TRUE])
               /\ (calls_since_arm = 1 /\ ~in_call) => cheats.prank = None
               /\ (calls_since_arm >= 2)
                    => /\ cheats.prank = None
                       /\ Unwrap(observed).caller = ccx.caller

\* C2's case: the second call after a single-call prank to another address
\* than the caller is running.
C2_Witness ==
    /\ last_arm # None
    /\ Unwrap(last_arm).single_call
    /\ Unwrap(last_arm).new_caller # ccx.caller
    /\ calls_since_arm = 2
    /\ in_call

\* C3: a prank/startPrank issued while the stored prank has used = false
\* fails with an error, whatever is requested, and leaves the stored prank
\* exactly as it was.
C3_UnusedPrankNotOverwritten ==
    (/\ cheat_op = "prank"
     /\ cheats_before.prank # None
     /\ ~Unwrap(cheats_before.prank).used)
        => /\ cheat_result \notin {"ok", "none"}
           /\ cheats = cheats_before

\* C3's case: an arm attempt on an unused stored prank was made and refused.
C3_Witness ==
    /\ cheat_op = "prank"
    /\ cheats_before.prank # None
    /\ ~Unwrap(cheats_before.prank).used
    /\ cheat_result = "cannot overwrite a prank until it is applied"

\* ------------------------------------------------------------------------
\* Claims about the invariant fuzz executor
\* ------------------------------------------------------------------------

\* C1: across all runs of invariant_fuzz, the violation record kept for an
\* invariant name is the one of the first run in which that invariant failed:
\* a later failure never replaces the stored record or its sequence.
C1_FirstViolationKept ==
    \A n \in InvariantNames :
        first_failure[n] # None => invariant_doesnt_hold[n] = first_failure[n]

\* C15: when an invariant check made after a successful fuzzed call reverts,
\* or is reported unsuccessful, a violation is recorded for that invariant
\* (with the inputs of the run) and no further call of that sequence is
\* executed: the loop is left and the failing iteration stays the last one.
C15_CheckFailureRecordedAndStops ==
    (outcome # None /\ Unwrap(outcome).kind \in {"reverted", "unsuccessful"})
        => LET o == Unwrap(outcome)
           IN  /\ invariant_doesnt_hold[o.name] # None
               /\ Unwrap(invariant_doesnt_hold[o.name]).func = o.name
               /\ Unwrap(invariant_doesnt_hold[o.name]).test_error = inputs
               /\ pos > Len(inputs)
               /\ executed # <<>>
               /\ executed[Len(executed)] = o.pos
               /\ fuzz_cases = o.cases_before

\* C15's case: a run is over whose first call passed into an invariant check
\* reported unsuccessful, with a call of the sequence left that never ran.
C15_Witness ==
    /\ outcome # None
    /\ Unwrap(outcome).kind = "unsuccessful"
    /\ Unwrap(outcome).pos < Len(inputs)
    /\ inv_pc = "idle"
    /\ Len(executed) = Unwrap(outcome).pos

\* C16 as stated: the sequence stops at the first call that reverts, no later
\* call of that sequence is executed (the loop is over after a reverted call).
C16_StopsAtFirstRevert ==
    (outcome # None /\ Unwrap(outcome).kind = "call_reverted") => pos > Len(inputs)

\* C16, amended: within a run the sequence is executed one call at a time, in
\* order, and a run that ends without a failed invariant check has executed
\* every call of its sequence, reverted calls or not.
C16_SequenceRunsToItsEnd ==
    /\ \A i \in 1 .. Len(executed) : executed[i] = i
    /\ (/\ inv_pc \in {"idle", "done"}
        /\ outcome # None
        /\ Unwrap(outcome).kind \notin {"reverted", "unsuccessful"})
            => Len(executed) = Len(inputs)

\* C16's case: a run of two calls is over, the second of which reverted.
C16_Witness ==
    /\ inv_pc = "idle"
    /\ Len(inputs) = 2
    /\ executed = <<1, 2>>
    /\ outcome # None
    /\ Unwrap(outcome).kind = "call_reverted"

\* C17: a fuzzed call that reverts is a silent rejection: it is left out of
\* the recorded fuzz cases, no violation is recorded for it, and the loop goes
\* on with the next call of the sequence.
C17_RevertedCallRejected ==
    (outcome # None /\ Unwrap(outcome).kind = "call_reverted")
        => LET o == Unwrap(outcome)
           IN  /\ fuzz_cases = o.cases_before
               /\ invariant_doesnt_hold = o.doesnt_hold_before
               /\ pos = o.pos + 1
               /\ inv_pc # "panic"

\* C17's case: the first call of a longer sequence reverted and the loop is
\* about to execute the second.
C17_Witness ==
    /\ outcome # None
    /\ Unwrap(outcome).kind = "call_reverted"
    /\ Unwrap(outcome).pos = 1
    /\ inv_pc = "run"
    /\ pos = 2
    /\ Len(inputs) >= 2

C19_TargetsAreSelected ==
    \A i \in 1 .. Len(inputs) :
        LET a == inputs[i].address
        IN  /\ a \in DOMAIN setup.contracts
            /\ a \notin {INVARIANT_ADDRESS, CHEATCODE_ADDRESS, CONSOLE_ADDRESS}
            /\ setup.target_contracts # <<>> => a \in Range(setup.target_contracts)
            /\ Len(setup.target_contracts) = 1 => a = setup.target_contracts[1]

\* C19's case: a sequence of two elements generated under a targetContracts()
\* list of one address.
C19_Witness ==
    /\ inv_pc = "run"
    /\ Len(setup.target_contracts) = 1
    /\ Len(inputs) = 2

\* C20: every generated call sequence has at least 1 and at most depth
\* elements.
C20_SequenceLength ==
    (inv_pc = "run" \/ runs > 0)
        => (1 <= Len(inputs) /\ Len(inputs) <= setup.invariant_depth)

\* C20's case: a generated sequence of exactly depth elements, depth > 1.
C20_Witness ==
    /\ inv_pc = "run"
    /\ setup.invariant_depth > 1
    /\ Len(inputs) = setup.invariant_depth

\* ------------------------------------------------------------------------
\* Claims about the inspector stack
\* ------------------------------------------------------------------------

\* The configured inspectors of a hook's list, in the order of the list.
Configured(list) == SelectSeq(list, LAMBDA i : i \in inspectors)

\* C4: in the call hook the configured inspectors are invoked in the order
\* fuzzer, debugger, tracer, coverage, log collector, cheatcodes, printer; the
\* first one whose status is not Continue gives the hook's result and no later
\* inspector is invoked for that call.
C4_CallHookOrder ==
    (hook.name = "call" /\ hook.dispatched) =>
        LET order == Configured(<<"fuzzer", "debugger", "tracer", "coverage",
                                  "log_collector", "cheatcodes", "printer">>)
            n == Len(hook.invoked)
        IN  /\ n <= Len(order)
            /\ hook.invoked = SubSeq(order, 1, n)
            /\ \A k \in 1 .. n - 1 : hook.answers[k].status = "Continue"
            /\ IF n > 0 /\ hook.answers[n].status # "Continue"
               THEN hook.result = Some(hook.answers[n])
               ELSE n = Len(order)

\* C4's case: a call hook in which an inspector other than the first answered
\* decisively while a later inspector is configured.
C4_Witness ==
    /\ hook.name = "call" /\ hook.dispatched
    /\ Len(hook.invoked) >= 2
    /\ hook.answers[Len(hook.invoked)].status # "Continue"
    /\ Len(hook.invoked) < Len(Configured(CallOrder))

\* C5: when the inner transaction of an intercepted depth-1 call reverts, the
\* call hook returns Revert with the revert output, and the outer journaled
\* state keeps the storage written before the call and has none of the
\* reverted call's writes.
C5_InnerRevert ==
    (returned # None /\ Unwrap(returned).kind = "call"
        /\ Unwrap(returned).res.result.kind = "Revert") =>
        LET R == Unwrap(returned)
        IN  /\ R.result.status = "Revert"
            /\ R.result.output = R.res.result.output
            /\ \A a \in DOMAIN R.state_before :
                  /\ a \in DOMAIN R.state_after
                  /\ R.state_after[a].storage = R.state_before[a].storage
            /\ \A a \in DOMAIN R.state_after \ DOMAIN R.state_before :
                  R.state_after[a].storage = EmptyMap

\* C5's case: the test contract stored before the call, the inner transaction
\* stored too and then reverted with revert data.
C5_Witness ==
    /\ returned # None
    /\ Unwrap(returned).kind = "call"
    /\ Unwrap(returned).res.result.kind = "Revert"
    /\ Unwrap(returned).res.result.output # EmptyBytes
    /\ Unwrap(returned).wrote
    /\ Unwrap(returned).state_before[TEST_CONTRACT].storage # EmptyMap

\* C6: in the inner context a call, call_end, create or create_end callback at
\* journal depth 0 invokes no inspector and changes nothing: call/create
\* return Continue with the full gas limit and empty output, the end hooks
\* return what they were given; no inspector's hook runs twice for an
\* intercepted call.
C6_InnerDispatchPassesThrough ==
    /\ (hook.name \in {"call", "create", "call_end", "create_end"}
            /\ hook.in_inner /\ hook.depth = 0) =>
          /\ hook.invoked = <<>>
          /\ hook.logs_after = hook.logs_before
          /\ ~hook.on_revert
          /\ hook.depth_after = 0
          /\ hook.name = "call" =>
                hook.result = Some([status |-> "Continue",
                                    gas |-> [limit |-> hook.inputs.gas_limit, used |-> 0, refunded |-> 0],
                                    output |-> ""])
          /\ hook.name = "create" =>
                hook.result = Some([status |-> "Continue", address |-> None,
                                    gas |-> [limit |-> hook.inputs.gas_limit, used |-> 0, refunded |-> 0],
                                    output |-> ""])
          /\ hook.name \in {"call_end", "create_end"} => hook.result = hook.incoming
    /\ \A i \in Inspectors : call_counts[i] <= 1

\* C6's case: the top-level call of an inner transaction ended, with every
\* inspector configured and invoked once for the intercepted call.
C6_Witness ==
    /\ hook.name = "call_end" /\ hook.in_inner /\ hook.depth = 0
    /\ inspectors = Inspectors
    /\ call_counts["cheatcodes"] = 1

\* The log() callbacks the stack observed, in order.
LogCallbacks == SelectSeq(log_events, LAMBDA e : e.hook = "log")

\* The events that reached the log collector and made it push an entry.
Pushed ==
    SelectSeq(log_events,
              LAMBDA e : e.reached /\ (e.hook = "log" \/ e.item.selector \in {"log(uint)", "log(uint256)", "log(string)"}))

\* C7 as stated: after a completed transaction collect() returns exactly the
\* sequence of log() callbacks the stack observed, in order.
C7_CollectEqualsLogCallbacks ==
    collected # None =>
        LET logs == Unwrap(collected).logs
        IN  /\ Len(logs) = Len(LogCallbacks)
            /\ \A k \in 1 .. Len(logs) : logs[k] = LogCallbacks[k].item

\* C7 amended: with a log collector configured collect() returns, in order,
\* one entry per log() callback and one converted log(string) entry per call
\* to the Hardhat console address that reached the log collector's call hook
\* with an input that decodes; without a log collector it returns no logs.
C7_CollectedLogs ==
    collected # None =>
        LET logs == Unwrap(collected).logs
        IN  IF "log_collector" \in inspectors
            THEN /\ Len(logs) = Len(Pushed)
                 /\ \A k \in 1 .. Len(logs) :
                       logs[k] = IF Pushed[k].hook = "log" THEN Pushed[k].item
                                 ELSE [address |-> ADDRESS_ZERO, topics |-> <<"log(string)">>,
                                       data |-> Pushed[k].item.args]
            ELSE logs = <<>>

\* C7's case: a console call and then a log were collected.
C7_Witness ==
    /\ collected # None
    /\ Len(Unwrap(collected).logs) = 2
    /\ Unwrap(collected).logs[1].address = ADDRESS_ZERO
    /\ Unwrap(collected).logs[2].address = TEST_CONTRACT

\* C21 as stated: with no inspector configured every hook is a no-op: call and
\* create return Continue with the full gas limit and empty output, nothing is
\* committed to the backend and no transaction is run, call_end and create_end
\* return what they were given.
C21_NoInspectorsNoOp ==
    inspectors = {} =>
        /\ inner_txs = 0
        /\ data_db = EmptyDb
        /\ hook.name = "call" => hook.result = Some(Continue(hook.inputs.gas_limit))
        /\ hook.name = "create" => hook.result = Some(CreateContinue(hook.inputs.gas_limit))
        /\ hook.name \in {"call_end", "create_end"} => hook.result = hook.incoming

\* C21 amended: with no inspector configured no hook invokes an inspector or
\* touches the logs, call_end and create_end return what they were given, and
\* call and create return Continue with the full gas limit and empty output,
\* except at journal depth 1 outside the inner context, where a create and a
\* call that is not static go on to the inner transaction.
C21_NoInspectors ==
    (inspectors = {} /\ hook.name \in {"call", "create", "call_end", "create_end"}) =>
        /\ hook.invoked = <<>>
        /\ hook.logs_after = hook.logs_before
        /\ hook.name \in {"call_end", "create_end"} => hook.result = hook.incoming
        /\ hook.name = "call" =>
              hook.result = IF ~hook.in_inner /\ hook.depth = 1 /\ ~hook.inputs.is_static
                            THEN None ELSE Some(Continue(hook.inputs.gas_limit))
        /\ hook.name = "create" =>
              hook.result = IF ~hook.in_inner /\ hook.depth = 1
                            THEN None ELSE Some(CreateContinue(hook.inputs.gas_limit))

\* C21's case: a stack without inspectors met a call of the test contract
\* that is not static and ran it as an inner transaction.
C21_Witness ==
    /\ inspectors = {}
    /\ hook.name = "call" /\ hook.depth = 1 /\ ~hook.in_inner
    /\ hook.result = None
    /\ inner_txs = 1
    /\ stack_pc = "inner_start"

\* C23: every failure of the inner transaction (halt, revert, an error of
\* transact or of the caller-account load before it) is translated into a
\* Halt or Revert status and returned as the intercepted call's own result;
\* the process is never aborted.
C23_InnerFailureNeverAborts ==
    /\ stack_pc # "panic"
    /\ (returned # None /\ Unwrap(returned).res.result.kind = "Revert") =>
          Unwrap(returned).result.status = "Revert"
    /\ (returned # None /\ Unwrap(returned).res.result.kind = "Halt") =>
          Unwrap(returned).result.status = Unwrap(returned).res.result.reason

\* C30 as stated: every call or create observed at journal depth 1 outside the
\* inner context is executed as an inner transaction.
C30_EveryDepth1CallIntercepted ==
    (hook.name \in {"call", "create"} /\ ~hook.in_inner /\ hook.depth = 1) =>
        hook.result = None

\* C30 amended: a call or create observed at journal depth 1 outside the inner
\* context is executed as an inner transaction exactly when no inspector
\* answered it and it is a create or a call that is not static. Then the
\* journaled state is committed to the backend, the environment takes the
\* caller, target, input, value and gas limit of the inputs, the stack is in the
\* inner context while the transaction runs, and when the transaction is over
\* the hook has left the inner context and returns the translated result.
C30_Depth1Intercepted ==
    /\ (hook.name \in {"call", "create"} /\ ~hook.in_inner /\ hook.depth = 1) =>
          (hook.result = None) <=>
              /\ \A k \in 1 .. Len(hook.answers) : hook.answers[k].status = "Continue"
              /\ hook.name = "call" => ~hook.inputs.is_static
    /\ intercepted # None =>
          LET i == Unwrap(intercepted)
          IN  /\ in_inner_context
              /\ data_db = commit(i.db_before, i.state_before)
              /\ i.env.caller = i.inputs.caller
              /\ i.env.value = i.inputs.value
              /\ i.env.gas_limit = i.inputs.gas_limit
              /\ i.env.nonce = Some(journaled_state[i.inputs.caller].info.nonce)
              /\ i.kind = "call" =>
                    /\ i.env.transact_to = <<"Call", i.inputs.contract>>
                    /\ i.env.data = i.inputs.input
              /\ i.kind = "create" =>
                    /\ i.env.transact_to = <<"Create", i.inputs.scheme>>
                    /\ i.env.data = i.inputs.init_code
    /\ (stack_pc = "outer" /\ hook.name \in {"call_end", "create_end"}
            /\ hook.in_inner /\ hook.depth = 0) =>
          LET R == Unwrap(returned)
          IN  /\ ~in_inner_context
              /\ Unwrap(end_due).result = R.result
              /\ R.result.status =
                    CASE R.res.result.kind = "Revert" -> "Revert"
                      [] OTHER -> R.res.result.reason

\* C30's case: a create of the test contract was intercepted after the test
\* contract had stored, and its inner transaction has started.
C30_Witness ==
    /\ intercepted # None
    /\ Unwrap(intercepted).kind = "create"
    /\ stack_pc = "inner_start"
    /\ Unwrap(intercepted).state_before[TEST_CONTRACT].storage # EmptyMap
    /\ hook.name = "create" /\ hook.dispatched /\ Len(hook.invoked) >= 1

\* C24: prank/startPrank issued while a broadcast is active fails with an
\* error and stores no new prank; the prank and the broadcast state are left
\* unchanged.
C24_PrankWhileBroadcasting ==
    (cheat_op = "prank" /\ cheats_before.broadcast # None) =>
        /\ cheat_result # "ok"
        /\ cheats = cheats_before

\* C24's case: an arm request was refused because of the active broadcast.
C24_Witness ==
    /\ cheat_op = "prank"
    /\ cheats_before.broadcast # None
    /\ cheat_result = "cannot prank for a broadcasted transaction"
    /\ cheats.prank = None

\* C25: while a prank is stored, an arm request whose single_call flag differs
\* from the stored prank's never succeeds, also when the stored prank has been
\* used: a request that succeeds keeps the flag, one that fails leaves the
\* stored prank unchanged.
C25_NoToggleWhileStored ==
    (cheat_op = "prank" /\ cheats_before.prank # None) =>
        /\ cheat_result = "ok" =>
              Unwrap(cheats.prank).single_call = Unwrap(cheats_before.prank).single_call
        /\ cheat_result # "ok" => cheats = cheats_before

\* C25's case: the stored prank of startPrank had been used and a prank
\* request was refused for the differing flag.
C25_Witness ==
    /\ cheat_op = "prank"
    /\ cheats_before.prank # None
    /\ Unwrap(cheats_before.prank).used
    /\ ~Unwrap(cheats_before.prank).single_call
    /\ cheat_result = "cannot override an ongoing prank"
    /\ cheats = cheats_before

C29_ChecksLeaveDatabase ==
    (outcome # None /\ inv_pc \in {"run", "panic", "aborted"}) =>
        LET o == Unwrap(outcome)
        IN  db = IF o.kind \in {"call_error", "call_reverted"} THEN o.db_before
                 ELSE call_raw_committing(o.db_before, inputs[o.pos])

\* C29's case: the second call of a sequence ran on what the first one left
\* and every invariant was called after it.
C29_Witness ==
    /\ outcome # None
    /\ inv_pc = "run"
    /\ Unwrap(outcome).kind = "passed"
    /\ Unwrap(outcome).pos = 2
    /\ Unwrap(outcome).db_before = {inputs[1]}
    /\ Unwrap(outcome).checked = Invariants
    /\ inputs[1] # inputs[2]

\* C22 as stated: for initialize, step, log and selfdestruct every configured
\* inspector of the hook's list is invoked on every event.
C22_EveryInspectorRuns ==
    /\ hook.name = "initialize_interp" => hook.invoked = Configured(InitializeOrder)
    /\ hook.name = "step" => hook.invoked = Configured(StepOrder)
    /\ hook.name = "log" => hook.invoked = Configured(LogOrder)
    /\ hook.name = "selfdestruct" => hook.invoked = Configured(SelfdestructOrder)

\* C22 amended: log and selfdestruct invoke every configured inspector of
\* their list, in order; initialize and step invoke the configured inspectors
\* in order up to the first one whose hook changes the interpreter's
\* instruction result, and none after it.
C22_EventForwarding ==
    /\ hook.name = "log" => hook.invoked = Configured(LogOrder)
    /\ hook.name = "selfdestruct" => hook.invoked = Configured(SelfdestructOrder)
    /\ hook.name \in {"initialize_interp", "step"} =>
          LET order == Configured(IF hook.name = "step" THEN StepOrder ELSE InitializeOrder)
              n == Len(hook.invoked)
          IN  /\ n <= Len(order)
              /\ hook.invoked = SubSeq(order, 1, n)
              /\ \A k \in 1 .. n - 1 : hook.answers[k] = hook.inputs
              /\ n < Len(order) => (n > 0 /\ hook.answers[n] # hook.inputs)
    /\ hook.name \in {"initialize_interp", "step", "log", "selfdestruct"} =>
          hook.depth_after = hook.depth

\* C22's case: a step in which the second configured inspector changed the
\* instruction result while later inspectors are configured.
C22_Witness ==
    /\ hook.name = "step"
    /\ Len(hook.invoked) = 2
    /\ hook.answers[2] # hook.inputs
    /\ Len(Configured(StepOrder)) > 2

\* ------------------------------------------------------------------------
\* Claims about the tracing cheatcodes
\* ------------------------------------------------------------------------

\* C26: pauseTracing and resumeTracing succeed without any effect when the
\* tracer, or the trace node they need, is missing; they never fail and never
\* abort.
C26_TracingNeverAborts ==
    /\ tracing_op.result \in {"none", "ok"}
    /\ (tracing_op.op # "none" /\ (tracer = None \/ nodes_last(Unwrap(tracer)) = None)) =>
          ignored_traces = tracing_op.before

\* ------------------------------------------------------------------------
\* Further claims about the inspector stack
\* ------------------------------------------------------------------------

\* C31 as stated: for every hook that dispatches to the inspectors the journal
\* depth when the dispatch ends equals the depth when it began, whether all
\* inspectors ran or one exited early; during the dispatch the depth is raised
\* by exactly one while in_inner_context is set and by zero otherwise.
C31_DepthRaisedInEveryHook ==
    (hook.name # "none" /\ hook.dispatched) =>
        /\ hook.depth_after = hook.depth
        /\ hook.dispatch_depth = hook.depth + IF hook.in_inner THEN 1 ELSE 0

\* C31 amended: the depth when a hook's dispatch ends equals the depth when
\* it began, whether all inspectors ran or one exited early; during the
\* dispatch it is raised by exactly one while in_inner_context is set, in
\* every hook but selfdestruct, which never raises it.
C31_DepthBalanced ==
    (hook.name # "none" /\ hook.dispatched) =>
        /\ hook.depth_after = hook.depth
        /\ hook.dispatch_depth =
              hook.depth + IF hook.in_inner /\ hook.name # "selfdestruct" THEN 1 ELSE 0

\* C31's case: in the inner context an inspector ended the dispatch of a call
\* hook early while a later inspector is configured.
C31_Witness ==
    /\ hook.name = "call" /\ hook.dispatched /\ hook.in_inner
    /\ hook.result # None
    /\ Unwrap(hook.result).status # "Continue"
    /\ Len(hook.invoked) < Len(Configured(CallOrder))
    /\ hook.dispatch_depth = 2

\* C32: merging the state of an inner transaction into the outer one: an
\* account both have gets the union of the status bits, the inner info, and
\* the outer storage with the inner slots written over it; an account only
\* the inner state has is inserted as it is; an account only the outer state
\* has is unchanged.
C32_MergeStates ==
    returned # None =>
        LET R == Unwrap(returned)
            main == R.main_state
            new == R.res.state
            merged == R.state_after
        IN  /\ DOMAIN merged = DOMAIN main \cup DOMAIN new
            /\ \A a \in DOMAIN main \ DOMAIN new : merged[a] = main[a]
            /\ \A a \in DOMAIN new \ DOMAIN main : merged[a] = new[a]
            /\ \A a \in DOMAIN main \cap DOMAIN new :
                  /\ merged[a].status = main[a].status \cup new[a].status
                  /\ merged[a].info = new[a].info
                  /\ DOMAIN merged[a].storage =
                        DOMAIN main[a].storage \cup DOMAIN new[a].storage
                  /\ \A k \in DOMAIN new[a].storage :
                        merged[a].storage[k] = new[a].storage[k]
                  /\ \A k \in DOMAIN main[a].storage \ DOMAIN new[a].storage :
                        merged[a].storage[k] = main[a].storage[k]

\* C32's case: a merge where a shared account keeps an outer slot the inner
\* state does not have, takes an inner info that differs from the outer one,
\* and an account only the inner state has is inserted.
C32_Witness ==
    /\ returned # None
    /\ LET R == Unwrap(returned)
            main == R.main_state
            new == R.res.state
       IN  /\ \E a \in DOMAIN main \cap DOMAIN new :
                 /\ DOMAIN main[a].storage \ DOMAIN new[a].storage # {}
                 /\ main[a].info # new[a].info
           /\ DOMAIN new \ DOMAIN main # {}

\* C33: call_end forwards the incoming status and output to the configured
\* inspectors in the order fuzzer, debugger, tracer, coverage, log collector,
\* cheatcodes, printer; the first one that returns a different status, or a
\* Revert whose output differs from the incoming one, gives the result and no
\* later inspector is invoked; if none does, the incoming (status, gas,
\* output) is the result.
C33_CallEndForwarding ==
    (hook.name = "call_end" /\ hook.dispatched) =>
        LET order == Configured(CallOrder)
            n == Len(hook.invoked)
            inc == Unwrap(hook.incoming)
            Decisive(a) == \/ a.status # inc.status
                           \/ (a.status = "Revert" /\ a.output # inc.output)
        IN  /\ n <= Len(order)
            /\ hook.invoked = SubSeq(order, 1, n)
            /\ \A k \in 1 .. n - 1 : ~Decisive(hook.answers[k])
            /\ IF n > 0 /\ Decisive(hook.answers[n])
               THEN hook.result = Some(hook.answers[n])
               ELSE n = Len(order) /\ hook.result = Some(inc)

\* C33's case: in a call_end an inspector returned the incoming status with
\* another output, which is not a Revert, and was passed over; a later one
\* changed the status while yet another inspector is configured after it.
C33_Witness ==
    /\ hook.name = "call_end" /\ hook.dispatched
    /\ Len(hook.invoked) >= 2
    /\ Len(hook.invoked) < Len(Configured(CallOrder))
    /\ \E k \in 1 .. Len(hook.invoked) - 1 :
          /\ hook.answers[k] # Unwrap(hook.incoming)
          /\ hook.answers[k].status = Unwrap(hook.incoming).status
    /\ hook.answers[Len(hook.invoked)].status # Unwrap(hook.incoming).status
    /\ hook.result = Some(hook.answers[Len(hook.invoked)])

\* C34: an intercepted call or create starts exactly one inner transaction
\* and none is started again before the hook returns; no inner transaction is
\* started while in_inner_context is set; in_inner_context is set only while
\* an intercepted call is being executed and is false when the outer hook
\* has returned.
C34_OneInnerTransaction ==
    /\ intercepted # None =>
          /\ in_inner_context
          /\ inner_txs = Unwrap(intercepted).txs_before + 1
    /\ returned # None =>
          Unwrap(returned).txs_after = Unwrap(returned).txs_before + 1
    /\ (hook.name \in {"call", "create"} /\ hook.in_inner) => hook.result # None
    /\ in_inner_context => intercepted # None
    /\ stack_pc \in {"start", "outer"} => ~in_inner_context

\* C34's case: inside the inner transaction a call that is not static was
\* observed at depth 1, passed every inspector and was left to the
\* interpreter.
C34_Witness ==
    /\ intercepted # None /\ in_inner_context /\ stack_pc = "inner"
    /\ hook.name = "call" /\ hook.in_inner /\ hook.depth = 1 /\ hook.dispatched
    /\ ~hook.inputs.is_static
    /\ hook.result # None /\ Unwrap(hook.result).status = "Continue"
    /\ inner_txs = 1

\* C38: when an inspector answers the call or create hook at depth 1 outside
\* the inner context with a status that is not Continue, that answer is the
\* hook's result: the backend is not committed and no inner transaction is
\* run for the call.
C38_DecidedCallNotIntercepted ==
    (/\ hook.name \in {"call", "create"} /\ ~hook.in_inner /\ hook.depth = 1
     /\ hook.invoked # <<>>
     /\ hook.answers[Len(hook.invoked)].status # "Continue") =>
        /\ hook.result = Some(hook.answers[Len(hook.invoked)])
        /\ data_db = hook.db_before
        /\ inner_txs = hook.txs_before
        /\ intercepted = None
        /\ ~in_inner_context

\* C38's case: an inspector answered a create at depth 1 that is not
\* static, while the journaled state holds what a commit would write to the
\* backend.
C38_Witness ==
    /\ hook.name = "create" /\ ~hook.in_inner /\ hook.depth = 1
    /\ hook.invoked # <<>>
    /\ hook.answers[Len(hook.invoked)].status = "Return"
    /\ commit(hook.db_before, journaled_state) # hook.db_before
    /\ end_due # None

\* The entries of the collected logs that are equal to l.
EntriesOf(l) == {k \in 1 .. Len(log_collector) : log_collector[k] = l}

\* The log() callbacks for l that reached the log collector.
CallbacksOf(l) ==
    {k \in 1 .. Len(log_events) :
        log_events[k].hook = "log" /\ log_events[k].item = l /\ log_events[k].reached}

\* C39: with a log collector configured, the collected logs hold one entry per
\* log() callback that reached it, those of an inner transaction included, and
\* the return from the inner transaction adds nothing to them: the logs the
\* inner execution result carries are not appended again.
C39_InnerLogsOnce ==
    /\ "log_collector" \in inspectors =>
          \A l \in LogsOf(TEST_CONTRACT) :
              Cardinality(EntriesOf(l)) = Cardinality(CallbacksOf(l))
    /\ returned # None => Unwrap(returned).logs_after = Unwrap(returned).logs_before

\* C39's case: an inner transaction that succeeded has returned, its result
\* carries a log, and the log collector has collected it.
C39_Witness ==
    /\ returned # None /\ stack_pc = "outer" /\ end_due # None
    /\ "log_collector" \in inspectors
    /\ Unwrap(returned).res.result.kind = "Success"
    /\ Unwrap(returned).res.logs # <<>>
    /\ \E l \in LogsOf(TEST_CONTRACT) : Cardinality(EntriesOf(l)) >= 1

\* ------------------------------------------------------------------------
\* Further claims about the invariant fuzz executor
\* ------------------------------------------------------------------------

\* C36: the fuzz cases hold, in execution order, one entry (calldata, gas,
\* stipend) for every fuzzed call that did not revert, the call after which
\* an invariant was found violated included: an iteration whose call did not
\* revert appends the call's case, an iteration whose call reverted appends
\* nothing.
C36_EveryCallThatDidNotRevert ==
    outcome # None =>
        LET o == Unwrap(outcome)
            case == FuzzCase(inputs[o.pos].calldata, 1, 0)
        IN  /\ o.kind \in {"passed", "reverted", "unsuccessful"} =>
                  fuzz_cases = Append(o.cases_before, case)
            /\ o.kind = "call_reverted" => fuzz_cases = o.cases_before

\* The calls of the run made so far, reverted ones included.
ExecutedCalls == [k \in 1 .. Len(executed) |-> inputs[executed[k]]]

\* C40: the sequence stored in a violation record is the complete sequence
\* generated for the run, with the reverted calls and the calls after the
\* violating one that were never made; the calls made up to the violation are
\* a prefix of it.
C40_RecordHoldsWholeSequence ==
    (outcome # None /\ Unwrap(outcome).kind \in {"reverted", "unsuccessful"}) =>
        LET o == Unwrap(outcome)
            stored == Unwrap(invariant_doesnt_hold[o.name]).test_error
        IN  /\ invariant_doesnt_hold[o.name] # None
            /\ stored = inputs
            /\ Len(executed) = o.pos
            /\ Len(executed) <= Len(stored)
            /\ ExecutedCalls = SubSeq(stored, 1, Len(executed))

\* C40's case: the first call of a sequence of two different calls broke an
\* invariant and the second was never made.
C40_Witness ==
    /\ outcome # None /\ Unwrap(outcome).kind \in {"reverted", "unsuccessful"}
    /\ Unwrap(outcome).pos = 1
    /\ Len(inputs) = 2 /\ inputs[2] # inputs[1]
    /\ Len(executed) = 1
    /\ Len(Unwrap(invariant_doesnt_hold[Unwrap(outcome).name]).test_error) = 2

\* ------------------------------------------------------------------------
\* Further claims about the value tree
\* ------------------------------------------------------------------------

\* C35: for a test that fails exactly for the values >= t, a new tree whose
\* start is at least t and whose bounds do not clamp, shrinking (simplify()
\* after a failing current(), complicate() after a passing one, until the
\* call returns false) ends with the last failing current() equal to t.
C35_ShrinkFindsThreshold ==
    shrink_pc = "done" => last_failing = Some(threshold)

\* C35's case: a search that has ended after growing back from a passing
\* value, for a threshold strictly between 0 and the start.
C35_Witness ==
    /\ shrink_pc = "done"
    /\ threshold > 1
    /\ last_failing = Some(threshold)
    /\ Len(trail) = 2
    /\ trail[1].op = "complicate"
    /\ Unwrap(tree).lo > 0

\* C37: shrinking terminates: in every sequence of simplify() and
\* complicate() calls on a new tree, in any order, only finitely many calls
\* return true; and a call made with hi <= lo returns false and leaves the
\* tree as it was.
C37_ShrinkingTerminates ==
    /\ <>[](ret # Some(TRUE))
    /\ [](\A i \in 1 .. Len(trail) :
            trail[i].before.hi <= trail[i].before.lo =>
                /\ (IF i < Len(trail) THEN trail[i + 1].before ELSE Unwrap(tree))
                      = trail[i].before
                /\ i = Len(trail) => ret = Some(FALSE))

\* C37's case: a tree that is not fixed has come to hi <= lo through a call
\* that moved it, and a simplify() and a complicate() after that both left
\* it alone.
C37_Witness ==
    /\ tree # None /\ ~Unwrap(tree).fixed
    /\ Unwrap(tree).hi <= Unwrap(tree).lo
    /\ Unwrap(tree).lo > 0
    /\ Len(trail) = 2
    /\ {trail[1].op, trail[2].op} = {"simplify", "complicate"}
    /\ trail[1].before = Unwrap(tree)
    /\ ret = Some(FALSE)

====
